---- MODULE Spec2Model ----
(***************************************************************************)
(* Model of the pairwise ranker of src/pairwise_comparison.py:             *)
(*   - PairwiseBinarySorter (resumable binary insertion),                  *)
(*   - RankingController (reconciliation, root ranking, child ranking,     *)
(*     persist-before-delete), driven by current_pair / choose_left /      *)
(*     choose_right / flush,                                               *)
(* with the two external stores seen through the calls the controller      *)
(* makes on them: SheetsClient.write_full_state (which may fail) and the   *)
(* Google Tasks delete.                                                    *)
(*                                                                         *)
(* Python lists are 0-based, TLA+ sequences 1-based: list index k is       *)
(* sequence index k + 1.  An optional value (None or a value) is the empty *)
(* sequence or a one-element sequence; a missing id is the string None.    *)
(***************************************************************************)
EXTENDS Integers, Sequences, FiniteSets, TLC

VARIABLES
    ctl,      \* the RankingController object (its fields, both sorters included)
    env,      \* what the external stores have been asked to do so far
    snap,     \* the two snapshots the controller was constructed from
    store,    \* the sheet tab as SheetsClient sees it (header row and rows)
    srt,      \* a stand-alone PairwiseBinarySorter
    hist,     \* the stand-alone sorter's driver: answers given, decide calls counted
    mrg       \* one merge of a live item into a ledger item: the two items, the result

vars == <<ctl, env, snap, store, srt, hist, mrg>>

(***************************************************************************)
(* Bounds of the model.                                                    *)
(***************************************************************************)
MaxLiveRoots == 2     \* live (Google Tasks) root tasks
MaxChildren == 3      \* live subtasks
MaxBaseline == 3      \* stand-alone sorter: size of already_sorted
MaxPending == 3       \* stand-alone sorter: size of remaining

None == "None"

\* ---- the items the snapshots are built from -----------------------------
RootIdPool == <<"r1", "r2", "r3", "r4">>
ChildIdPool == <<"c1", "c2", "c3", "c4", "c5", "c6">>
RootLetters == <<"a", "b", "c", "d">>
ChildLetters == <<"p", "q", "r", "s", "t", "u">>
LowerCase == <<"a", "b", "c", "d", "p", "q", "r", "s", "t", "u", "w", "z">>
UpperCase == <<"A", "B", "C", "D", "P", "Q", "R", "S", "T", "U", "W", "Z">>

\* A task dict: the keys the controller reads.  ref is the object's identity.
Task(ref, id, title, parent, tlist) ==
    [ref |-> ref, id |-> id, title |-> title, parent |-> parent, task_list_id |-> tlist]

\* tasks_api.getTasks / fetch_active_tasks: every live task has an id and a
\* task_list_id; a subtask carries its parent's id.
LiveRoot(i) == Task(RootIdPool[i], RootIdPool[i], <<RootLetters[i]>>, None, "L")
LiveChild(j, p) == Task(ChildIdPool[j], ChildIdPool[j], <<ChildLetters[j]>>, RootIdPool[p], "L")

\* sheets_api.read_full_state: a row has a stripped title and no id.
SheetTask(ref, title) == Task(ref, None, title, None, None)

\* ---- str helpers --------------------------------------------------------
Lower(ch) ==
    IF \E k \in 1..Len(UpperCase) : UpperCase[k] = ch
    THEN LowerCase[CHOOSE k \in 1..Len(UpperCase) : UpperCase[k] = ch]
    ELSE ch

\* str.split(): the maximal runs of non-blank characters
RECURSIVE Split(_)
Split(s) ==
    IF s = <<>> THEN <<>>
    ELSE IF Head(s) = " " THEN Split(Tail(s))
    ELSE LET n == IF \E k \in 1..Len(s) : s[k] = " "
                  THEN (CHOOSE k \in 1..Len(s) : s[k] = " " /\ \A m \in 1..(k-1) : s[m] # " ") - 1
                  ELSE Len(s)
         IN <<SubSeq(s, 1, n)>> \o Split(SubSeq(s, n + 1, Len(s)))

\* " ".join(words)
RECURSIVE Join(_)
Join(ws) ==
    IF ws = <<>> THEN <<>>
    ELSE IF Len(ws) = 1 THEN ws[1]
    ELSE ws[1] \o <<" ">> \o Join(Tail(ws))

\* RankingController._norm: strip, collapse whitespace, lower-case
_norm(s) ==
    LET j == Join(Split(IF s = None THEN <<>> ELSE s))
    IN [k \in 1..Len(j) |-> Lower(j[k])]

\* ---- list helpers -------------------------------------------------------
\* mutant of Insert: the item at index i is overwritten
Insert_Overwrite(l, i, x) ==
    LET k == IF i > Len(l) THEN Len(l) ELSE i
    IN SubSeq(l, 1, k) \o <<x>> \o SubSeq(l, k + 2, Len(l))

\* list.insert(i, x)
Insert(l, i, x) ==
    LET k == IF i > Len(l) THEN Len(l) ELSE i
    IN SubSeq(l, 1, k) \o <<x>> \o SubSeq(l, k + 1, Len(l))

Refs(l) == [k \in 1..Len(l) |-> l[k].ref]
RefSet(l) == {l[k].ref : k \in 1..Len(l)}

(***************************************************************************)
(* PairwiseBinarySorter                                                    *)
(***************************************************************************)
\* __init__
NewSorter(already_sorted, remaining) ==
    [sorted |-> already_sorted, remaining |-> remaining, frames |-> <<>>]

has_work(s) == s.remaining # <<>> \/ s.frames # <<>>

\* mutant of Midpoint: the probe is the first element of the range
Midpoint_Low(low, high) == low

\* mid = (low + high) // 2
Midpoint(low, high) == (low + high) \div 2

\* mutant of Sorter_current_pair: with nothing sorted yet the first pending
\* item is not placed
Sorter_current_pair_NoAutoPlace(s) ==
    IF s.frames = <<>>
    THEN IF s.remaining = <<>> \/ s.sorted = <<>>
         THEN [s |-> s, pair |-> <<>>]
         ELSE LET low == 0
                  high == Len(s.sorted)
                  mid == Midpoint(low, high)
                  candidate == Head(s.remaining)
              IN [s |-> [s EXCEPT !.frames = Append(@, <<low, high, mid, candidate>>)],
                  pair |-> <<candidate, s.sorted[mid + 1]>>]
    ELSE LET f == s.frames[Len(s.frames)]
         IN [s |-> s, pair |-> <<f[4], s.sorted[f[3] + 1]>>]

\* current_pair: the sorter after the call and the pair returned (<<>> is None)
RECURSIVE Sorter_current_pair(_)
Sorter_current_pair(s) ==
    IF s.frames = <<>>
    THEN IF s.remaining = <<>>
         THEN [s |-> s, pair |-> <<>>]
         ELSE IF s.sorted = <<>>
              THEN Sorter_current_pair(
                       [s EXCEPT !.sorted = Append(@, Head(s.remaining)),
                                 !.remaining = Tail(@)])
              ELSE LET low == 0
                       high == Len(s.sorted)
                       mid == Midpoint(low, high)
                       candidate == Head(s.remaining)
                   IN [s |-> [s EXCEPT !.frames = Append(@, <<low, high, mid, candidate>>)],
                       pair |-> <<candidate, s.sorted[mid + 1]>>]
    ELSE LET f == s.frames[Len(s.frames)]
         IN [s |-> s, pair |-> <<f[4], s.sorted[f[3] + 1]>>]

\* decide: the sorter after the call and the item placed (<<>> is None)
HeadIsCandidate(s, cand) ==
    s.remaining # <<>> /\ Head(s.remaining).id = cand.id

\* mutant of DecideBounds: the two branches exchanged
DecideBounds_Swapped(low, high, mid, choose_left) ==
    IF choose_left THEN <<mid + 1, high>> ELSE <<low, mid>>

DecideBounds(low, high, mid, choose_left) ==
    IF choose_left THEN <<low, mid>> ELSE <<mid + 1, high>>

\* mutant of Sorter_decide: the narrowed frame is pushed on top of the old
\* one, which stays
Sorter_decide_KeepFrame(s, choose_left) ==
    IF s.frames = <<>>
    THEN [s |-> s, placed |-> <<>>]
    ELSE LET f == s.frames[Len(s.frames)]
             cand == f[4]
             popped == SubSeq(s.frames, 1, Len(s.frames) - 1)
             rem == IF HeadIsCandidate(s, cand) THEN Tail(s.remaining) ELSE s.remaining
             lh == DecideBounds(f[1], f[2], f[3], choose_left)
             low == lh[1]
             high == lh[2]
         IN IF low >= high
            THEN [s |-> [s EXCEPT !.frames = popped, !.remaining = rem,
                                  !.sorted = Insert(@, low, cand)],
                  placed |-> <<cand>>]
            ELSE [s |-> [s EXCEPT !.frames = Append(@, <<low, high, Midpoint(low, high), cand>>),
                                  !.remaining = rem],
                  placed |-> <<>>]

Sorter_decide(s, choose_left) ==
    IF s.frames = <<>>
    THEN [s |-> s, placed |-> <<>>]
    ELSE LET f == s.frames[Len(s.frames)]
             cand == f[4]
             popped == SubSeq(s.frames, 1, Len(s.frames) - 1)
             rem == IF HeadIsCandidate(s, cand) THEN Tail(s.remaining) ELSE s.remaining
             lh == DecideBounds(f[1], f[2], f[3], choose_left)
             low == lh[1]
             high == lh[2]
         IN IF low >= high
            THEN [s |-> [s EXCEPT !.frames = popped, !.remaining = rem,
                                  !.sorted = Insert(@, low, cand)],
                  placed |-> <<cand>>]
            ELSE [s |-> [s EXCEPT !.frames = Append(popped, <<low, high, Midpoint(low, high), cand>>),
                                  !.remaining = rem],
                  placed |-> <<>>]

(***************************************************************************)
(* Python dicts.  A dict whose iteration order the code depends on is a    *)
(* record [keys, val]: the keys in insertion order and the mapping; a dict *)
(* that is only looked up is a function.                                   *)
(***************************************************************************)
EmptyDict == [keys |-> <<>>, val |-> <<>>]
DictGet(d, k, default) == IF k \in DOMAIN d.val THEN d.val[k] ELSE default
DictSet(d, k, v) ==
    IF k \in DOMAIN d.val
    THEN [d EXCEPT !.val[k] = v]
    ELSE [keys |-> Append(d.keys, k), val |-> (k :> v) @@ d.val]
MapGet(m, k, default) == IF k \in DOMAIN m THEN m[k] ELSE default
MapSet(m, k, v) == (k :> v) @@ m

(***************************************************************************)
(* RankingController: reconciliation and construction                      *)
(***************************************************************************)
\* mutant of TitleToSheetRoot: the rows are keyed by their titles as written
TitleToSheetRoot_Raw(baseline_roots, nt) ==
    LET hits == {k \in 1..Len(baseline_roots) :
                    baseline_roots[k].title # <<>> /\ baseline_roots[k].title = nt}
    IN IF hits = {} THEN 0 ELSE CHOOSE k \in hits : \A m \in hits : m <= k

\* title_to_sheet_root: the index of the sheet root a normalized title maps
\* to (a later row with the same key replaces an earlier one), 0 if none
TitleToSheetRoot(baseline_roots, nt) ==
    LET hits == {k \in 1..Len(baseline_roots) :
                    _norm(baseline_roots[k].title) # <<>> /\ _norm(baseline_roots[k].title) = nt}
    IN IF hits = {} THEN 0 ELSE CHOOSE k \in hits : \A m \in hits : m <= k

\* the copy of the live task's keys onto the sheet row (roots: id,
\* task_list_id; children: parent as well), each only if not None
MergeInto(sheet_task, gt_task, with_parent) ==
    [sheet_task EXCEPT
        !.id = IF gt_task.id # None THEN gt_task.id ELSE @,
        !.task_list_id = IF gt_task.task_list_id # None THEN gt_task.task_list_id ELSE @,
        !.parent = IF with_parent /\ gt_task.parent # None THEN gt_task.parent ELSE @]

\* mutant of ReconcileRoots: every live root with a title is left to be ranked
RECURSIVE ReconcileRoots_AllPending(_, _, _)
ReconcileRoots_AllPending(acc, roots_from_gt, k) ==
    IF k > Len(roots_from_gt) THEN acc
    ELSE LET gr == roots_from_gt[k]
             nt == _norm(gr.title)
         IN IF nt = <<>> THEN ReconcileRoots_AllPending(acc, roots_from_gt, k + 1)
            ELSE ReconcileRoots_AllPending(
                     [acc EXCEPT
                        !.remaining_roots = Append(@, gr),
                        !.parent_title_by_id =
                            IF gr.id # None THEN MapSet(@, gr.id, gr.title) ELSE @],
                     roots_from_gt, k + 1)

\* the loop over roots_from_gt, from its k-th element on
RECURSIVE ReconcileRoots(_, _, _)
ReconcileRoots(acc, roots_from_gt, k) ==
    IF k > Len(roots_from_gt) THEN acc
    ELSE LET gr == roots_from_gt[k]
             nt == _norm(gr.title)
             i == TitleToSheetRoot(acc.baseline_roots, nt)
         IN IF nt = <<>> THEN ReconcileRoots(acc, roots_from_gt, k + 1)
            ELSE IF i # 0
            THEN ReconcileRoots(
                     [acc EXCEPT
                        !.baseline_roots[i] = MergeInto(@, gr, FALSE),
                        !.parent_title_by_id =
                            IF gr.id # None THEN MapSet(@, gr.id, acc.baseline_roots[i].title) ELSE @],
                     roots_from_gt, k + 1)
            ELSE ReconcileRoots(
                     [acc EXCEPT
                        !.remaining_roots = Append(@, gr),
                        !.parent_title_by_id =
                            IF gr.id # None THEN MapSet(@, gr.id, gr.title) ELSE @],
                     roots_from_gt, k + 1)

\* children_index_by_parent_title[ptitle]: the index, in the sheet's child
\* list of ptitle, of the row a normalized title maps to, 0 if none
ChildIndex(baseline_children, ptitle, nt) ==
    LET lst == MapGet(baseline_children, ptitle, <<>>)
        hits == {k \in 1..Len(lst) : _norm(lst[k].title) # <<>> /\ _norm(lst[k].title) = nt}
    IN IF hits = {} THEN 0 ELSE CHOOSE k \in hits : \A m \in hits : m <= k

\* the loop over one parent's live children, from its k-th element on
RECURSIVE ReconcileChildren(_, _, _, _, _)
ReconcileChildren(acc, pid, ptitle, glist, k) ==
    IF k > Len(glist) THEN acc
    ELSE LET gc == glist[k]
             nt == _norm(gc.title)
             i == ChildIndex(acc.baseline_children_by_title, ptitle, nt)
         IN IF nt # <<>> /\ i # 0
            THEN ReconcileChildren(
                     [acc EXCEPT !.baseline_children_by_title[ptitle][i] = MergeInto(@, gc, TRUE)],
                     pid, ptitle, glist, k + 1)
            ELSE ReconcileChildren(
                     [acc EXCEPT !.remaining_children =
                         DictSet(@, pid, Append(DictGet(@, pid, <<>>), gc))],
                     pid, ptitle, glist, k + 1)

\* the loop over children_from_gt_by_id.items(), from its k-th key on
RECURSIVE ReconcileGroups(_, _, _)
ReconcileGroups(acc, children_from_gt_by_id, k) ==
    IF k > Len(children_from_gt_by_id.keys) THEN acc
    ELSE LET pid == children_from_gt_by_id.keys[k]
             ptitle == MapGet(acc.parent_title_by_id, pid, <<>>)
         IN ReconcileGroups(
                ReconcileChildren(acc, pid, ptitle, children_from_gt_by_id.val[pid], 1),
                children_from_gt_by_id, k + 1)

_reconcile_sheet_with_google(baseline_roots, baseline_children_by_title, roots_from_gt, children_from_gt_by_id) ==
    ReconcileGroups(
        ReconcileRoots([baseline_roots |-> baseline_roots,
                        baseline_children_by_title |-> baseline_children_by_title,
                        remaining_roots |-> <<>>,
                        remaining_children |-> EmptyDict,
                        parent_title_by_id |-> <<>>],
                       roots_from_gt, 1),
        children_from_gt_by_id, 1)

\* the loop of _seed_empty_child_groups_for_all_parents over the list rs
RECURSIVE _seed_empty_child_groups_for_all_parents(_, _)
_seed_empty_child_groups_for_all_parents(children_remaining, rs) ==
    IF rs = <<>> THEN children_remaining
    ELSE LET pid == Head(rs).id
         IN _seed_empty_child_groups_for_all_parents(
                IF pid # None /\ pid \notin DOMAIN children_remaining.val
                THEN DictSet(children_remaining, pid, <<>>)
                ELSE children_remaining,
                Tail(rs))

\* RankingController.__init__
NewController(roots_from_sheet, children_from_sheet_by_title, roots_from_gt, children_from_gt_by_id) ==
    LET rc == _reconcile_sheet_with_google(roots_from_sheet, children_from_sheet_by_title,
                                           roots_from_gt, children_from_gt_by_id)
    IN [baseline_roots |-> rc.baseline_roots,
        baseline_children_by_title |-> rc.baseline_children_by_title,
        roots_sorter |-> NewSorter(rc.baseline_roots, rc.remaining_roots),
        children_sorted_by_parent_id |-> <<>>,
        children_remaining_by_parent_id |->
            _seed_empty_child_groups_for_all_parents(
                rc.remaining_children, rc.baseline_roots \o rc.remaining_roots),
        _pending_child_deletes_by_parent |-> <<>>,
        parent_order_ids |-> <<>>,
        current_parent_id |-> None,
        child_sorter |-> <<>>,
        _persisted_after_auto_root |-> FALSE,
        deleted_ids |-> {}]

(***************************************************************************)
(* RankingController: the calls.  A call works on a record w:              *)
(*   c     the controller object,                                          *)
(*   env   the external stores' side: recorded = ids whose position some   *)
(*         successful write_full_state recorded, groups = parent ids whose *)
(*         finalized child list some successful write carried, order =     *)
(*         the roots of the last successful write, in order, calls =       *)
(*         external delete calls per id,                                   *)
(*   log   the external calls of this controller call, in order,           *)
(*   fails the write_full_state calls of this controller call that raise   *)
(*         (by their number within the call), nw = writes made so far,     *)
(*   dfails the ids whose external delete raises in this controller call,  *)
(*   exc   an exception is propagating, ret = the value returned.          *)
(* A delete is logged with its outcome (ok) and with what the controller   *)
(* holds for the deleted id as a parent at that moment: the length of its  *)
(* children_remaining list and whether the active child sorter is its own  *)
(* and has work.                                                           *)
(***************************************************************************)
NewEnv == [recorded |-> {}, groups |-> {}, order |-> <<>>, calls |-> <<>>]

BeginCall(c, e, fails) ==
    [c |-> c, env |-> e, log |-> <<>>, fails |-> fails, nw |-> 0, dfails |-> {},
     exc |-> FALSE, ret |-> <<>>]

\* what a successful write_full_state(roots_in_order, children_by_parent)
\* records: the roots written, and the children listed under the id of a
\* root written (sheets_api.write_full_state emits root by root and looks
\* the children up by the root's id)
Ids(l) == {l[k].id : k \in 1..Len(l)} \ {None}
RecordedBy(roots_in_order, children_by_parent) ==
    Ids(roots_in_order)
      \cup UNION {Ids(children_by_parent[pid]) :
                     pid \in DOMAIN children_by_parent \cap Ids(roots_in_order)}

\* mutant of _persist: writes the session's baseline roots instead of the
\* sorter's current order
_persist_BaselineRoots(w) ==
    LET n == w.nw + 1
        ok == n \notin w.fails
        roots_in_order == w.c.baseline_roots
        children_union == w.c.children_sorted_by_parent_id
    IN [w EXCEPT
          !.nw = n,
          !.exc = ~ok,
          !.log = Append(@, [op |-> "write", ok |-> ok, roots |-> Refs(roots_in_order),
                             children |-> [pid \in DOMAIN children_union |->
                                              Refs(children_union[pid])],
                             recorded |-> RecordedBy(roots_in_order, children_union)]),
          !.env.recorded = IF ok THEN @ \cup RecordedBy(roots_in_order, children_union) ELSE @,
          !.env.order = IF ok THEN Refs(roots_in_order) ELSE @,
          !.env.groups = IF ok THEN @ \cup (DOMAIN children_union \cap Ids(roots_in_order)) ELSE @]

\* _persist: one write_full_state call with the roots in current order and
\* the finalized child lists; it raises iff the write raises
_persist(w) ==
    LET n == w.nw + 1
        ok == n \notin w.fails
        roots_in_order == w.c.roots_sorter.sorted
        children_union == w.c.children_sorted_by_parent_id
    IN [w EXCEPT
          !.nw = n,
          !.exc = ~ok,
          !.log = Append(@, [op |-> "write", ok |-> ok, roots |-> Refs(roots_in_order),
                             children |-> [pid \in DOMAIN children_union |->
                                              Refs(children_union[pid])],
                             recorded |-> RecordedBy(roots_in_order, children_union)]),
          !.env.recorded = IF ok THEN @ \cup RecordedBy(roots_in_order, children_union) ELSE @,
          !.env.order = IF ok THEN Refs(roots_in_order) ELSE @,
          !.env.groups = IF ok THEN @ \cup (DOMAIN children_union \cap Ids(roots_in_order)) ELSE @]

\* mutant of AlreadyDeleted: deleted_ids is not consulted
AlreadyDeleted_Never(c, tid) == FALSE

\* _delete_task: the guards, then the external delete (its failure is
\* swallowed) and deleted_ids.add
AlreadyDeleted(c, tid) == tid \in c.deleted_ids

\* mutant of _delete_task: a raising external delete propagates and the id
\* is not added to deleted_ids
_delete_task_Propagates(w, task) ==
    LET tid == task.id
    IN IF tid = None \/ AlreadyDeleted(w.c, tid) THEN w
       ELSE IF task.task_list_id = None THEN w
       ELSE [w EXCEPT
               !.log = Append(@, [op |-> "delete", id |-> tid, ok |-> tid \notin w.dfails,
                                  parent |-> task.parent,
                                  remaining |-> Len(DictGet(w.c.children_remaining_by_parent_id,
                                                            tid, <<>>)),
                                  sorting |-> /\ w.c.current_parent_id = tid
                                              /\ w.c.child_sorter # <<>>
                                              /\ has_work(w.c.child_sorter[1])]),
               !.env.calls = MapSet(@, tid, MapGet(@, tid, 0) + 1),
               !.exc = @ \/ tid \in w.dfails,
               !.c.deleted_ids = IF tid \in w.dfails THEN @ ELSE @ \cup {tid}]

_delete_task(w, task) ==
    LET tid == task.id
    IN IF tid = None \/ AlreadyDeleted(w.c, tid) THEN w
       ELSE IF task.task_list_id = None THEN w
       ELSE [w EXCEPT
               !.log = Append(@, [op |-> "delete", id |-> tid, ok |-> tid \notin w.dfails,
                                  parent |-> task.parent,
                                  remaining |-> Len(DictGet(w.c.children_remaining_by_parent_id,
                                                            tid, <<>>)),
                                  sorting |-> /\ w.c.current_parent_id = tid
                                              /\ w.c.child_sorter # <<>>
                                              /\ has_work(w.c.child_sorter[1])]),
               !.env.calls = MapSet(@, tid, MapGet(@, tid, 0) + 1),
               !.c.deleted_ids = @ \cup {tid}]

\* mutant of _parent_has_unprocessed_children: the active child sorter is
\* not looked at
_parent_has_unprocessed_children_RemainingOnly(c, pid) ==
    Len(DictGet(c.children_remaining_by_parent_id, pid, <<>>)) > 0

_parent_has_unprocessed_children(c, pid) ==
    \/ Len(DictGet(c.children_remaining_by_parent_id, pid, <<>>)) > 0
    \/ /\ c.current_parent_id = pid
       /\ c.child_sorter # <<>>
       /\ has_work(c.child_sorter[1])

_delete_parent_if_ready(w, pid) ==
    IF pid = None THEN w
    ELSE IF _parent_has_unprocessed_children(w.c, pid) THEN w
    ELSE LET sorted == w.c.roots_sorter.sorted
             hits == {k \in 1..Len(sorted) : sorted[k].id = pid}
         IN IF hits = {} THEN w
            ELSE _delete_task(w, sorted[CHOOSE k \in hits : \A m \in hits : k <= m])

\* _final_cleanup_for_parents: the loop over the keys, from the k-th on
RECURSIVE FinalCleanupFrom(_, _, _)
FinalCleanupFrom(w, keys, k) ==
    IF k > Len(keys) THEN w
    ELSE FinalCleanupFrom(_delete_parent_if_ready(w, keys[k]), keys, k + 1)

\* mutant of _final_cleanup_for_parents: only the first key is looked at
_final_cleanup_for_parents_FirstKey(w) ==
    FinalCleanupFrom(w, SubSeq(w.c.children_remaining_by_parent_id.keys, 1, 1), 1)

_final_cleanup_for_parents(w) ==
    FinalCleanupFrom(w, w.c.children_remaining_by_parent_id.keys, 1)

\* mutant of AutoPlaceOne: the child is finalized and persisted but its
\* delete is left out
AutoPlaceOne_NoChildDelete(w, pid) ==
    LET child == w.c.children_remaining_by_parent_id.val[pid][1]
        w1 == [w EXCEPT
                 !.c.children_remaining_by_parent_id.val[pid] = Tail(@),
                 !.c.children_sorted_by_parent_id =
                     MapSet(@, pid, Append(MapGet(@, pid, <<>>), child))]
        w2 == _persist(w1)
        persist_ok == ~w2.exc
        w3 == [w2 EXCEPT !.exc = FALSE]
    IN IF persist_ok
       THEN _delete_parent_if_ready(w3, pid)
       ELSE w3

\* _auto_place_trivial_children, one parent with exactly one child: finalize,
\* persist, and on success delete the child and possibly the parent
AutoPlaceOne(w, pid) ==
    LET child == w.c.children_remaining_by_parent_id.val[pid][1]
        w1 == [w EXCEPT
                 !.c.children_remaining_by_parent_id.val[pid] = Tail(@),
                 !.c.children_sorted_by_parent_id =
                     MapSet(@, pid, Append(MapGet(@, pid, <<>>), child))]
        w2 == _persist(w1)
        persist_ok == ~w2.exc
        w3 == [w2 EXCEPT !.exc = FALSE]
    IN IF persist_ok
       THEN _delete_parent_if_ready(_delete_task(w3, child), pid)
       ELSE w3

\* _auto_place_trivial_children: the loop over the keys, from the k-th on
RECURSIVE AutoPlaceFrom(_, _, _)
AutoPlaceFrom(w, keys, k) ==
    IF k > Len(keys) THEN w
    ELSE LET pid == keys[k]
             rem == DictGet(w.c.children_remaining_by_parent_id, pid, <<>>)
         IN IF Len(rem) = 0
            THEN AutoPlaceFrom(_delete_parent_if_ready(w, pid), keys, k + 1)
            ELSE IF Len(rem) = 1
            THEN AutoPlaceFrom(AutoPlaceOne(w, pid), keys, k + 1)
            ELSE AutoPlaceFrom(w, keys, k + 1)

_auto_place_trivial_children(w) ==
    AutoPlaceFrom(w, w.c.children_remaining_by_parent_id.keys, 1)

\* mutant of ChildBaseline: the child sorter starts from the root order
ChildBaseline_Roots(c, pid) == c.roots_sorter.sorted

\* the baseline a parent's child sorter starts from
ChildBaseline(c, pid) == <<>>

\* mutant of _activate_next_parent_group: the group's children are published
\* as the parent's list when the group is activated
RECURSIVE _activate_next_parent_group_Publish(_)
_activate_next_parent_group_Publish(w) ==
    IF w.c.parent_order_ids = <<>> THEN [w EXCEPT !.ret = <<FALSE>>]
    ELSE LET pid == Head(w.c.parent_order_ids)
             rem == DictGet(w.c.children_remaining_by_parent_id, pid, <<>>)
             pop(x) == [x EXCEPT !.c.parent_order_ids = Tail(@)]
         IN IF pid \in DOMAIN w.c.children_sorted_by_parent_id
            THEN _activate_next_parent_group_Publish(pop(_delete_parent_if_ready(w, pid)))
            ELSE IF Len(rem) = 0
            THEN _activate_next_parent_group_Publish(pop(_delete_parent_if_ready(w, pid)))
            ELSE [w EXCEPT
                    !.c.current_parent_id = pid,
                    !.c.child_sorter = <<NewSorter(ChildBaseline(w.c, pid), rem)>>,
                    !.c.children_remaining_by_parent_id = DictSet(@, pid, <<>>),
                    !.c.children_sorted_by_parent_id = MapSet(@, pid, rem),
                    !.ret = <<TRUE>>]

\* _activate_next_parent_group: ret is <<TRUE>> or <<FALSE>>
RECURSIVE _activate_next_parent_group(_)
_activate_next_parent_group(w) ==
    IF w.c.parent_order_ids = <<>> THEN [w EXCEPT !.ret = <<FALSE>>]
    ELSE LET pid == Head(w.c.parent_order_ids)
             rem == DictGet(w.c.children_remaining_by_parent_id, pid, <<>>)
             pop(x) == [x EXCEPT !.c.parent_order_ids = Tail(@)]
         IN IF pid \in DOMAIN w.c.children_sorted_by_parent_id
            THEN _activate_next_parent_group(pop(_delete_parent_if_ready(w, pid)))
            ELSE IF Len(rem) = 0
            THEN _activate_next_parent_group(pop(_delete_parent_if_ready(w, pid)))
            ELSE [w EXCEPT
                    !.c.current_parent_id = pid,
                    !.c.child_sorter = <<NewSorter(ChildBaseline(w.c, pid), rem)>>,
                    !.c.children_remaining_by_parent_id = DictSet(@, pid, <<>>),
                    !.ret = <<TRUE>>]

\* current_pair, step 3: the parents in root order, then the trivial groups
\* mutant of IdsInOrder: the roots without an id are not filtered out
IdsInOrder_Unfiltered(l) == [k \in 1..Len(l) |-> l[k].id]

IdsInOrder(l) == SelectSeq([k \in 1..Len(l) |-> l[k].id], LAMBDA x : x # None)

\* mutant of PrepParents: the parents are queued in reverse root order
PrepParents_Reversed(w) ==
    IF w.c.parent_order_ids = <<>>
    THEN LET ids == IdsInOrder(w.c.roots_sorter.sorted)
         IN _auto_place_trivial_children(
                [w EXCEPT !.c.parent_order_ids =
                              @ \o [k \in 1..Len(ids) |-> ids[Len(ids) + 1 - k]]])
    ELSE w

PrepParents(w) ==
    IF w.c.parent_order_ids = <<>>
    THEN _auto_place_trivial_children(
             [w EXCEPT !.c.parent_order_ids = @ \o IdsInOrder(w.c.roots_sorter.sorted)])
    ELSE w

\* current_pair, step 4 and the return
ActivateAndPair(w) ==
    LET need == w.c.child_sorter = <<>> \/ ~has_work(w.c.child_sorter[1])
        w1 == IF need THEN _activate_next_parent_group(w) ELSE w
    IN IF need /\ w1.ret = <<FALSE>>
       THEN [w1 EXCEPT !.ret = <<>>]
       ELSE LET r == Sorter_current_pair(w1.c.child_sorter[1])
            IN [w1 EXCEPT !.c.child_sorter = <<r.s>>, !.ret = r.pair]

\* mutant of AfterRoots: a failing persist of the root order is swallowed
\* and the child phase starts all the same
AfterRoots_Swallow(w) ==
    IF ~w.c._persisted_after_auto_root /\ w.c.roots_sorter.sorted # <<>>
    THEN LET w1 == [_persist(w) EXCEPT !.exc = FALSE]
         IN ActivateAndPair(PrepParents([w1 EXCEPT !.c._persisted_after_auto_root = TRUE]))
    ELSE ActivateAndPair(PrepParents(w))

\* current_pair, step 2 onwards
AfterRoots(w) ==
    IF ~w.c._persisted_after_auto_root /\ w.c.roots_sorter.sorted # <<>>
    THEN LET w1 == _persist(w)
         IN IF w1.exc THEN w1
            ELSE ActivateAndPair(PrepParents([w1 EXCEPT !.c._persisted_after_auto_root = TRUE]))
    ELSE ActivateAndPair(PrepParents(w))

\* RankingController.current_pair
current_pair(w) ==
    IF has_work(w.c.roots_sorter)
    THEN LET r == Sorter_current_pair(w.c.roots_sorter)
             w1 == [w EXCEPT !.c.roots_sorter = r.s]
         IN IF r.pair # <<>> THEN [w1 EXCEPT !.ret = r.pair] ELSE AfterRoots(w1)
    ELSE AfterRoots(w)

\* mutant of DecideRoot: the placed root is deleted at once
\* (DELETE_PARENTS_IMMEDIATELY set)
DecideRoot_DeleteImmediately(w, left) ==
    LET r == Sorter_decide(w.c.roots_sorter, left)
        w1 == [w EXCEPT !.c.roots_sorter = r.s]
    IN IF r.placed = <<>> THEN w1
       ELSE LET w2 == _persist(w1)
            IN IF w2.exc THEN w2
               ELSE IF r.placed[1].id = None THEN w2
               ELSE _delete_task(w2, r.placed[1])

\* _decide, the root branch
DecideRoot(w, left) ==
    LET r == Sorter_decide(w.c.roots_sorter, left)
        w1 == [w EXCEPT !.c.roots_sorter = r.s]
    IN IF r.placed = <<>> THEN w1
       ELSE LET w2 == _persist(w1)
            IN IF w2.exc THEN w2
               ELSE _delete_parent_if_ready(w2, r.placed[1].id)

\* mutant of FinishChildGroup: the queued subtasks and the parent are deleted
\* whether or not the persist succeeded
FinishChildGroup_DeleteAnyway(w, pid) ==
    LET w1 == [w EXCEPT !.c.children_sorted_by_parent_id =
                            MapSet(@, pid, w.c.child_sorter[1].sorted)]
        w2 == _persist(w1)
        w3 == [w2 EXCEPT !.exc = FALSE]
        queue == MapGet(w3.c._pending_child_deletes_by_parent, pid, <<>>)
        DeleteAll[k \in 0..Len(queue)] ==
            IF k = 0 THEN w3 ELSE _delete_task(DeleteAll[k - 1], queue[k])
        w4 == _delete_parent_if_ready(
                  [DeleteAll[Len(queue)] EXCEPT
                      !.c._pending_child_deletes_by_parent = MapSet(@, pid, <<>>)],
                  pid)
    IN [w4 EXCEPT !.c.current_parent_id = None, !.c.child_sorter = <<>>]

\* _decide, when the child sorter finishes: finalize, persist, and only
\* after a successful persist delete the queued subtasks and the parent
FinishChildGroup(w, pid) ==
    LET w1 == [w EXCEPT !.c.children_sorted_by_parent_id =
                            MapSet(@, pid, w.c.child_sorter[1].sorted)]
        w2 == _persist(w1)
        persist_ok == ~w2.exc
        w3 == [w2 EXCEPT !.exc = FALSE]
        queue == MapGet(w3.c._pending_child_deletes_by_parent, pid, <<>>)
        DeleteAll[k \in 0..Len(queue)] ==
            IF k = 0 THEN w3 ELSE _delete_task(DeleteAll[k - 1], queue[k])
        w4 == IF persist_ok
              THEN _delete_parent_if_ready(
                       [DeleteAll[Len(queue)] EXCEPT
                           !.c._pending_child_deletes_by_parent = MapSet(@, pid, <<>>)],
                       pid)
              ELSE w3
    IN [w4 EXCEPT !.c.current_parent_id = None, !.c.child_sorter = <<>>]

\* mutant of DecideChild: when the persist of a finished group fails, the
\* group is handed back to be ranked again
DecideChild_Retry(w, left) ==
    IF w.c.child_sorter = <<>> \/ w.c.current_parent_id = None THEN w
    ELSE LET r == Sorter_decide(w.c.child_sorter[1], left)
             pid == w.c.current_parent_id
             w1 == [w EXCEPT !.c.child_sorter = <<r.s>>]
         IN IF r.placed = <<>> THEN w1
            ELSE LET w2 == [w1 EXCEPT !.c._pending_child_deletes_by_parent =
                                MapSet(@, pid, Append(MapGet(@, pid, <<>>), r.placed[1]))]
                     w3 == FinishChildGroup(w2, pid)
                     sorted == w3.c.children_sorted_by_parent_id
                 IN IF has_work(r.s) THEN w2
                    ELSE IF (w2.nw + 1) \notin w.fails THEN w3
                    ELSE [w3 EXCEPT
                            !.c.children_sorted_by_parent_id =
                                [k \in DOMAIN sorted \ {pid} |-> sorted[k]],
                            !.c.children_remaining_by_parent_id = DictSet(@, pid, r.s.sorted),
                            !.c._pending_child_deletes_by_parent = MapSet(@, pid, <<>>)]

\* _decide, the child branch
DecideChild(w, left) ==
    IF w.c.child_sorter = <<>> \/ w.c.current_parent_id = None THEN w
    ELSE LET r == Sorter_decide(w.c.child_sorter[1], left)
             pid == w.c.current_parent_id
             w1 == [w EXCEPT !.c.child_sorter = <<r.s>>]
         IN IF r.placed = <<>> THEN w1
            ELSE LET w2 == [w1 EXCEPT !.c._pending_child_deletes_by_parent =
                                MapSet(@, pid, Append(MapGet(@, pid, <<>>), r.placed[1]))]
                 IN IF ~has_work(r.s) THEN FinishChildGroup(w2, pid) ELSE w2

\* RankingController._decide (choose_left: left = TRUE, choose_right: FALSE)
_decide(w, left) ==
    IF has_work(w.c.roots_sorter) THEN DecideRoot(w, left) ELSE DecideChild(w, left)

\* mutant of flush: the cleanup runs although the persist raised
flush_CleanupAnyway(w) ==
    LET w1 == _persist(w)
    IN [_final_cleanup_for_parents([w1 EXCEPT !.exc = FALSE]) EXCEPT !.exc = w1.exc]

\* RankingController.flush
flush(w) ==
    LET w1 == _persist(w)
    IN IF w1.exc THEN w1 ELSE _final_cleanup_for_parents(w1)

(***************************************************************************)
(* The session: a sheet snapshot and a live snapshot, the controller built *)
(* from them, then any sequence of current_pair / choose_left /            *)
(* choose_right / flush calls, every write_full_state free to raise.       *)
(***************************************************************************)
\* live roots r1..rn, in position order
LiveRootLists == {[k \in 1..n |-> LiveRoot(k)] : n \in 0..MaxLiveRoots}

\* live subtasks c1..cn with their parents' ids; a parent id beyond the live
\* roots is the id of a task the fetch did not return (completed, hidden or
\* blank-titled): its subtasks have a parent id that matches no root
ParentChoices ==
    UNION {{par \in [1..n -> 1..MaxLiveRoots] : \A k \in 1..(n - 1) : par[k] <= par[k + 1]} :
              n \in 0..MaxChildren}

RECURSIVE GroupByParent(_, _, _)
GroupByParent(acc, par, k) ==
    IF k > Len(par) THEN acc
    ELSE GroupByParent(
             DictSet(acc, RootIdPool[par[k]],
                     Append(DictGet(acc, RootIdPool[par[k]], <<>>), LiveChild(k, par[k]))),
             par, k + 1)

LiveChildDicts == {GroupByParent(EmptyDict, par, 1) : par \in ParentChoices}

\* sheet snapshots: no rows; one row that is no live task; a row whose title
\* is live root r1's up to case, followed by a row that is no live task;
\* the same with two subtask rows under the first, the second of which is
\* live subtask c1's up to case
SheetOnlyRoot == SheetTask("s9", <<"z">>)
SheetRootOne == SheetTask("s1", <<"A">>)
SheetOnlyChild == SheetTask("t9", <<"w">>)
SheetChildOne == SheetTask("t1", <<"P">>)
SheetSnapshots ==
    { [roots |-> <<>>, children |-> <<>>],
      [roots |-> <<SheetOnlyRoot>>, children |-> <<>>],
      [roots |-> <<SheetRootOne, SheetOnlyRoot>>, children |-> <<>>],
      [roots |-> <<SheetRootOne, SheetOnlyRoot>>,
       children |-> (<<"A">> :> <<SheetOnlyChild, SheetChildOne>>)] }

NoHist == [asked |-> {}, ncmp |-> 0, last |-> <<>>, pair |-> <<>>]
NoSorter == NewSorter(<<>>, <<>>)

\* no merge under way
NoMerge == [sheet_item |-> None, gt_item |-> None, out |-> <<>>]

\* main: what read_full_state and fetch_active_tasks returned
Snapshot(roots_from_sheet, children_from_sheet_by_title, roots_from_gt, children_from_gt_by_id) ==
    [roots_from_sheet |-> roots_from_sheet,
     children_from_sheet_by_title |-> children_from_sheet_by_title,
     roots_from_gt |-> roots_from_gt,
     children_from_gt_by_id |-> children_from_gt_by_id]
NoSnapshot == Snapshot(<<>>, <<>>, <<>>, EmptyDict)

\* a tab with the canonical header row and no other row
NoStore == [header |-> TRUE, rows |-> <<>>]

\* main: the controller constructed from a snapshot
Started(sn) ==
    /\ snap = sn
    /\ ctl = NewController(sn.roots_from_sheet, sn.children_from_sheet_by_title,
                           sn.roots_from_gt, sn.children_from_gt_by_id)
    /\ env = NewEnv
    /\ store = NoStore
    /\ srt = NoSorter
    /\ hist = NoHist
    /\ mrg = NoMerge

Init ==
    \E sheet \in SheetSnapshots, roots_from_gt \in LiveRootLists,
       children_from_gt_by_id \in LiveChildDicts :
       Started(Snapshot(sheet.roots, sheet.children, roots_from_gt, children_from_gt_by_id))

\* the write_full_state calls the next controller call can make, numbered
\* within the call: current_pair persists once when it gets past the roots
\* with the placed roots not yet persisted, and once per one-child group
\* when it preps the parents; a decision persists when it places a root or
\* finishes a child group; flush persists once
WritesOfCurrentPair(c) ==
    IF Sorter_current_pair(c.roots_sorter).pair # <<>> THEN 0
    ELSE (IF ~c._persisted_after_auto_root
             /\ Sorter_current_pair(c.roots_sorter).s.sorted # <<>> THEN 1 ELSE 0)
         + (IF c.parent_order_ids = <<>>
            THEN Cardinality({pid \in DOMAIN c.children_remaining_by_parent_id.val :
                                 Len(c.children_remaining_by_parent_id.val[pid]) = 1})
            ELSE 0)

WritesOfDecide(c, left) ==
    IF has_work(c.roots_sorter)
    THEN (IF Sorter_decide(c.roots_sorter, left).placed # <<>> THEN 1 ELSE 0)
    ELSE IF c.child_sorter = <<>> \/ c.current_parent_id = None THEN 0
    ELSE LET r == Sorter_decide(c.child_sorter[1], left)
         IN IF r.placed # <<>> /\ ~has_work(r.s) THEN 1 ELSE 0

WriteNumbers(name) ==
    IF name = "current_pair" THEN 1..WritesOfCurrentPair(ctl)
    ELSE IF name = "choose_left" THEN 1..WritesOfDecide(ctl, TRUE)
    ELSE IF name = "choose_right" THEN 1..WritesOfDecide(ctl, FALSE)
    ELSE {1}

\* the outcomes the next call of each kind can have from the current state,
\* one per choice of the writes that raise
CurrentPairCalls ==
    {current_pair(BeginCall(ctl, env, fails)) : fails \in SUBSET WriteNumbers("current_pair")}
ChooseLeftCalls ==
    {_decide(BeginCall(ctl, env, fails), TRUE) : fails \in SUBSET WriteNumbers("choose_left")}
ChooseRightCalls ==
    {_decide(BeginCall(ctl, env, fails), FALSE) : fails \in SUBSET WriteNumbers("choose_right")}
FlushCalls ==
    {flush(BeginCall(ctl, env, fails)) : fails \in SUBSET WriteNumbers("flush")}

\* the call returns (or raises): the controller and the stores are as the
\* call left them
Returned(w) ==
    /\ ctl' = w.c
    /\ env' = w.env
    /\ UNCHANGED <<snap, store, srt, hist, mrg>>

CurrentPair == \E w \in CurrentPairCalls : Returned(w)

ChooseLeft == \E w \in ChooseLeftCalls : Returned(w)

ChooseRight == \E w \in ChooseRightCalls : Returned(w)

Flush == \E w \in FlushCalls : Returned(w)

Next == CurrentPair \/ ChooseLeft \/ ChooseRight \/ Flush

Spec == Init /\ [][Next]_vars

(***************************************************************************)
(* A stand-alone sorter driven by current_pair / decide.                   *)
(***************************************************************************)
BaseRefPool == <<"s1", "s2", "s3", "s4">>
PendRefPool == <<"n1", "n2", "n3", "n4">>

\* already_sorted: sheet rows (no id); remaining: new tasks, with or without id
SorterBaselines == {[k \in 1..n |-> SheetTask(BaseRefPool[k], <<"z">>)] : n \in 0..MaxBaseline}
SorterPendings ==
    UNION {{[k \in 1..n |-> Task(PendRefPool[k], IF k \in ids THEN PendRefPool[k] ELSE None,
                                   <<"w">>, None, "L")] : ids \in SUBSET (1..n)} : n \in 0..MaxPending}


InitSorter ==
    /\ \E b \in SorterBaselines, r \in SorterPendings : srt = NewSorter(b, r)
    /\ hist = NoHist
    /\ ctl = NewController(<<>>, <<>>, <<>>, EmptyDict)
    /\ env = NewEnv
    /\ snap = NoSnapshot
    /\ store = NoStore
    /\ mrg = NoMerge

\* the driver asks for the next pair
SorterCurrentPair ==
    LET r == Sorter_current_pair(srt)
    IN /\ srt' = r.s
       /\ hist' = [hist EXCEPT !.pair = IF r.pair = <<>> THEN <<>> ELSE Refs(r.pair)]
       /\ UNCHANGED <<ctl, env, snap, store, mrg>>

\* the driver answers the pair of the open frame
SorterDecide(choose_left) ==
    LET r == Sorter_decide(srt, choose_left)
        f == srt.frames[Len(srt.frames)]
    IN /\ srt.frames # <<>>
       /\ srt' = r.s
       /\ hist' = [asked |-> hist.asked \cup {<<f[4].ref, srt.sorted[f[3] + 1].ref, choose_left>>},
                   ncmp |-> IF r.placed = <<>> THEN hist.ncmp + 1 ELSE 0,
                   last |-> IF r.placed = <<>> THEN hist.last
                            ELSE <<[m |-> Len(srt.sorted), n |-> hist.ncmp + 1]>>,
                   pair |-> <<>>]
       /\ UNCHANGED <<ctl, env, snap, store, mrg>>

\* decide with no open frame returns None and changes nothing
SorterDecideIdle ==
    /\ srt.frames = <<>>
    /\ srt' = Sorter_decide(srt, TRUE).s
    /\ UNCHANGED <<hist, ctl, env, snap, store, mrg>>

NextSorter ==
    \/ SorterCurrentPair
    \/ \E choose_left \in BOOLEAN : SorterDecide(choose_left)
    \/ SorterDecideIdle

SpecSorter == InitSorter /\ [][NextSorter]_vars

(***************************************************************************)
(* Reconciliation: sessions started from ledgers and live snapshots whose  *)
(* titles collide in every way (equal, equal up to case, different).       *)
(***************************************************************************)
MaxLedgerRoots == 2   \* root rows of the ledger

LedgerRefPool == <<"s1", "s2", "s3", "s4">>
LedgerTitlePool == <<<<"A">>, <<"a">>, <<"b">>>>

\* read_full_state: the root rows, any titles of the pool in any order
LedgerRootLists ==
    UNION {{[k \in 1..n |-> SheetTask(LedgerRefPool[k], LedgerTitlePool[f[k]])] :
               f \in [1..n -> 1..Len(LedgerTitlePool)]} : n \in 0..MaxLedgerRoots}

\* read_full_state: no subtask rows, or one (P) or two (P, Q) under the
\* title of the first root row
LedgerChildMaps(roots) ==
    IF roots = <<>> THEN {<<>>}
    ELSE {<<>>,
          roots[1].title :> <<SheetTask("t1", <<"P">>)>>,
          roots[1].title :> <<SheetTask("t1", <<"P">>), SheetTask("t2", <<"Q">>)>>}

\* fetch_active_tasks: live roots r1, r2 with their titles
TitledRoot(i, title) == Task(RootIdPool[i], RootIdPool[i], title, None, "L")
LiveRootVariants ==
    { <<>>,
      <<TitledRoot(1, <<"A">>)>>,
      <<TitledRoot(1, <<"c">>)>>,
      <<TitledRoot(1, <<"A">>), TitledRoot(2, <<"a">>)>>,
      <<TitledRoot(1, <<"A">>), TitledRoot(2, <<"c">>)>>,
      <<TitledRoot(1, <<"a">>), TitledRoot(2, <<"b">>)>>,
      <<TitledRoot(1, <<"c">>), TitledRoot(2, <<" ", "a", " ">>)>> }

\* fetch_active_tasks: live subtasks c1 (p), c2 (q) under r1, or c1 under r2
LiveChildVariants ==
    { EmptyDict,
      DictSet(EmptyDict, "r1", <<LiveChild(1, 1)>>),
      DictSet(EmptyDict, "r1", <<LiveChild(1, 1), LiveChild(2, 1)>>),
      DictSet(EmptyDict, "r2", <<LiveChild(1, 2)>>) }

InitReconcile ==
    \E roots_from_sheet \in LedgerRootLists, roots_from_gt \in LiveRootVariants,
       children_from_gt_by_id \in LiveChildVariants :
       \E children_from_sheet_by_title \in LedgerChildMaps(roots_from_sheet) :
          Started(Snapshot(roots_from_sheet, children_from_sheet_by_title,
                           roots_from_gt, children_from_gt_by_id))

SpecReconcile == InitReconcile /\ [][Next]_vars

(***************************************************************************)
(* Sessions with two live parents, each with its own group of subtasks,    *)
(* and an empty ledger: every item is new, the roots are ranked first and  *)
(* then each group.                                                        *)
(***************************************************************************)
MaxGroupChildren == 2   \* live subtasks under one parent

\* fetch_active_tasks: the first n1 subtasks under r1, the next n2 under r2
GroupsOf(n1, n2) ==
    LET g1 == [k \in 1..n1 |-> LiveChild(k, 1)]
        g2 == [k \in 1..n2 |-> LiveChild(n1 + k, 2)]
        d1 == IF n1 = 0 THEN EmptyDict ELSE DictSet(EmptyDict, RootIdPool[1], g1)
    IN IF n2 = 0 THEN d1 ELSE DictSet(d1, RootIdPool[2], g2)

InitGroups ==
    \E n1 \in 0..MaxGroupChildren, n2 \in 0..MaxGroupChildren :
       Started(Snapshot(<<>>, <<>>, <<LiveRoot(1), LiveRoot(2)>>, GroupsOf(n1, n2)))

SpecGroups == InitGroups /\ [][Next]_vars

(***************************************************************************)
(* The ranking loop of RankerUI: _refresh asks current_pair for the next   *)
(* pair, a click answers the pair on display with choose_left or           *)
(* choose_right, and so on in turn.  A pair is on display exactly when the *)
(* sorter in charge has an open frame: current_pair opened it and no       *)
(* decision has closed it.                                                 *)
(***************************************************************************)
PairOnOffer(c) ==
    IF has_work(c.roots_sorter) THEN c.roots_sorter.frames # <<>>
    ELSE c.child_sorter # <<>> /\ c.current_parent_id # None /\ c.child_sorter[1].frames # <<>>

\* _refresh
AskNext == ~PairOnOffer(ctl) /\ CurrentPair

\* _refresh, the current_pair call returning
AskNextReturns == ~PairOnOffer(ctl) /\ \E w \in CurrentPairCalls : ~w.exc /\ Returned(w)

\* _pick_left, _pick_right
Answer == PairOnOffer(ctl) /\ (ChooseLeft \/ ChooseRight)

\* the call can be made and changes the state: ENABLED <<Answer>>_vars and
\* ENABLED <<AskNextReturns>>_vars, computed from the calls' outcomes
Changes(w) == w.c # ctl \/ w.env # env
CanAnswer == PairOnOffer(ctl) /\ \E w \in ChooseLeftCalls \cup ChooseRightCalls : Changes(w)
CanAskNextReturn == ~PairOnOffer(ctl) /\ \E w \in CurrentPairCalls : ~w.exc /\ Changes(w)

\* weak fairness of Answer and of AskNextReturns, WF_vars(Answer) and
\* WF_vars(AskNextReturns), written out with the enabling conditions above:
\* the user keeps answering, in any way, and the loop keeps asking;
\* current_pair raises only when the write of the root order in its step 2
\* does, and that write is taken to succeed eventually.  Every other write
\* may fail each time.
LoopFairness ==
    /\ ([]<>~CanAnswer) \/ ([]<><<Answer>>_vars)
    /\ ([]<>~CanAskNextReturn) \/ ([]<><<AskNextReturns>>_vars)

InitSession == Init \/ InitGroups

NextSession == AskNext \/ Answer

SpecSession == InitSession /\ [][NextSession]_vars /\ LoopFairness

(***************************************************************************)
(* SheetsClient: the tab, read_full_state and write_full_state.  The tab   *)
(* is a record: header (row 1 is the canonical header) and rows, the rows  *)
(* below it, each with the cells Status, Category, Title, Parent Title,    *)
(* Effort and Joy as strings.  Description and Link are left out: what is  *)
(* written to them depends on the task passed only.                        *)
(***************************************************************************)
Row(status, category, title, parent, effort, joy) ==
    [status |-> status, category |-> category, title |-> title, parent |-> parent,
     effort |-> effort, joy |-> joy]

RECURSIVE StripLeft(_)
StripLeft(s) == IF s # <<>> /\ Head(s) = " " THEN StripLeft(Tail(s)) ELSE s
RECURSIVE StripRight(_)
StripRight(s) ==
    IF s # <<>> /\ s[Len(s)] = " " THEN StripRight(SubSeq(s, 1, Len(s) - 1)) ELSE s

\* _s: (x or "").strip()
_s(x) == IF x = None THEN <<>> ELSE StripRight(StripLeft(x))

\* dict.get(key) of a task dict: None for a key the dict does not have
TaskGet(task, key) == IF key \in DOMAIN task THEN task[key] ELSE None

\* _require_header_or_fail raises unless row 1 is the canonical header
HeaderFails(st) == ~st.header

\* the cells of a row as read_full_state and _read_existing_preserve_map
\* take them: each stripped
StrippedRow(r) ==
    [status |-> _s(r.status), category |-> _s(r.category), title |-> _s(r.title),
     parent |-> _s(r.parent), effort |-> _s(r.effort), joy |-> _s(r.joy)]
Body(st) == [k \in 1..Len(st.rows) |-> StrippedRow(st.rows[k])]

\* the task dict read_full_state makes of the k-th row
RowRefPool == <<"x1", "x2", "x3", "x4", "x5", "x6", "x7", "x8", "x9", "x10", "x11", "x12",
                "x13", "x14", "x15", "x16", "x17", "x18", "x19", "x20">>
ReadTask(body, k) ==
    [ref |-> RowRefPool[k], id |-> None, title |-> body[k].title, parent |-> None,
     task_list_id |-> None, category |-> body[k].category,
     effort |-> body[k].effort, joy |-> body[k].joy]

\* the indices of the rows with a title, in row order
TitledRows(body) == SelectSeq([k \in 1..Len(body) |-> k], LAMBDA k : body[k].title # <<>>)

\* read_full_state: the rows with a blank Parent Title are the roots, the
\* others are grouped by their Parent Title, in row order
read_full_state(st) ==
    LET body == Body(st)
        idx == TitledRows(body)
        root_idx == SelectSeq(idx, LAMBDA k : body[k].parent = <<>>)
        parents == {body[idx[j]].parent : j \in 1..Len(idx)} \ {<<>>}
        child_idx == [pt \in parents |-> SelectSeq(idx, LAMBDA k : body[k].parent = pt)]
    IN [roots |-> [j \in 1..Len(root_idx) |-> ReadTask(body, root_idx[j])],
        children_by_parent |->
            [pt \in parents |-> [j \in 1..Len(child_idx[pt]) |-> ReadTask(body, child_idx[pt][j])]]]

\* _read_existing_preserve_map: (Parent Title, Title) -> the Status,
\* Category, Effort and Joy of the last row with that key
_read_existing_preserve_map(st) ==
    LET body == Body(st)
        idx == TitledRows(body)
        keys == {<<body[idx[j]].parent, body[idx[j]].title>> : j \in 1..Len(idx)}
        last == [key \in keys |->
                    CHOOSE k \in 1..Len(body) :
                       /\ <<body[k].parent, body[k].title>> = key
                       /\ \A m \in (k + 1)..Len(body) : <<body[m].parent, body[m].title>> # key]
    IN [key \in keys |->
           [status |-> body[last[key]].status, category |-> body[last[key]].category,
            effort |-> body[last[key]].effort, joy |-> body[last[key]].joy]]

NoMeta == [status |-> <<>>, category |-> <<>>, effort |-> <<>>, joy |-> <<>>]

\* mutant of row_for: the Status cell is written blank
row_for_BlankStatus(task, parent_title, preserve_map) ==
    LET raw_title == _s(task.title)
        prev == MapGet(preserve_map, <<_s(parent_title), raw_title>>, NoMeta)
        category == _s(TaskGet(task, "category"))
        effort == _s(TaskGet(task, "effort"))
        joy == _s(TaskGet(task, "joy"))
    IN Row(<<>>,
           IF category = <<>> THEN prev.category ELSE category,
           IF parent_title # <<>> THEN <<" ", " ">> \o raw_title ELSE raw_title,
           parent_title,
           IF effort = <<>> THEN prev.effort ELSE effort,
           IF joy = <<>> THEN prev.joy ELSE joy)

\* write_full_state.row_for
row_for(task, parent_title, preserve_map) ==
    LET raw_title == _s(task.title)
        prev == MapGet(preserve_map, <<_s(parent_title), raw_title>>, NoMeta)
        category == _s(TaskGet(task, "category"))
        effort == _s(TaskGet(task, "effort"))
        joy == _s(TaskGet(task, "joy"))
    IN Row(prev.status,
           IF category = <<>> THEN prev.category ELSE category,
           IF parent_title # <<>> THEN <<" ", " ">> \o raw_title ELSE raw_title,
           parent_title,
           IF effort = <<>> THEN prev.effort ELSE effort,
           IF joy = <<>> THEN prev.joy ELSE joy)

\* the de-duplication loops: the tasks of lst with a title not yet seen are
\* appended to acc.out, their normalized titles added to acc.seen
RECURSIVE Dedupe(_, _)
Dedupe(acc, lst) ==
    IF lst = <<>> THEN acc
    ELSE LET nt == _norm(_s(Head(lst).title))
         IN IF nt = <<>> \/ nt \in acc.seen THEN Dedupe(acc, Tail(lst))
            ELSE Dedupe([out |-> Append(acc.out, Head(lst)), seen |-> acc.seen \cup {nt}],
                        Tail(lst))

\* mutant of SafetyCheckFails: the write is never refused
SafetyCheckFails_Never(deduped_children, existing_children_by_parent_title, root_title) == FALSE

\* the safety check: a non-finalized parent with subtask rows in the tab
\* would be written with fewer subtask rows than the tab holds for it
SafetyCheckFails(deduped_children, existing_children_by_parent_title, root_title) ==
    /\ root_title \in DOMAIN existing_children_by_parent_title
    /\ Len(deduped_children) < Len(existing_children_by_parent_title[root_title])

\* children_by_parent: the lists passed under parent ids and the lists
\* passed under parent titles
ByKey(ids, titles) == [ids |-> ids, titles |-> titles]
NoKeys == <<>>

\* is the root's child ranking finalized (a child list explicitly provided)
Finalized(root, by_key) ==
    TaskGet(root, "id") \in DOMAIN by_key.ids \/ _s(root.title) \in DOMAIN by_key.titles

\* one turn of the loop over roots_in_order: the root's row and the rows of
\* its subtasks, or the refusal of the safety check
RootRows(root, by_key, existing_children_by_parent_title, preserve_map) ==
    LET root_title == _s(root.title)
        pid == TaskGet(root, "id")
        merged_children ==
            (IF pid # None /\ pid \in DOMAIN by_key.ids THEN by_key.ids[pid] ELSE <<>>)
               \o MapGet(by_key.titles, root_title, <<>>)
        finalized == Finalized(root, by_key)
        passed == Dedupe([out |-> <<>>, seen |-> {}], merged_children)
        all == IF finalized THEN passed
               ELSE Dedupe(passed, MapGet(existing_children_by_parent_title, root_title, <<>>))
        deduped_children == all.out
    IN IF root_title = <<>> THEN [exc |-> FALSE, rows |-> <<>>]
       ELSE IF ~finalized
               /\ SafetyCheckFails(deduped_children, existing_children_by_parent_title, root_title)
            THEN [exc |-> TRUE, rows |-> <<>>]
       ELSE [exc |-> FALSE,
             rows |-> <<row_for(root, <<>>, preserve_map)>>
                         \o [j \in 1..Len(deduped_children) |->
                                row_for(deduped_children[j], root_title, preserve_map)]]

\* the loop over roots_in_order, from its k-th element on
RECURSIVE BuildRows(_, _, _, _, _, _)
BuildRows(acc, roots_in_order, k, by_key, existing_children_by_parent_title, preserve_map) ==
    IF acc.exc \/ k > Len(roots_in_order) THEN acc
    ELSE LET r == RootRows(roots_in_order[k], by_key, existing_children_by_parent_title,
                           preserve_map)
         IN BuildRows([exc |-> r.exc, rows |-> acc.rows \o r.rows], roots_in_order, k + 1,
                      by_key, existing_children_by_parent_title, preserve_map)

\* the remote calls of one write_full_state that can fail: the reads, the
\* clear and the update
FailPoints == {"none", "get", "clear", "update"}

\* write_full_state: the tab after the call and whether the call raised.
\* An update that fails after the clear leaves the tab empty.
write_full_state(st, roots_in_order, children_by_parent, fail) ==
    IF fail = "get" \/ HeaderFails(st) THEN [store |-> st, exc |-> TRUE]
    ELSE LET built == BuildRows([exc |-> FALSE, rows |-> <<>>], roots_in_order, 1,
                                children_by_parent, read_full_state(st).children_by_parent,
                                _read_existing_preserve_map(st))
         IN IF fail = "clear" \/ built.exc THEN [store |-> st, exc |-> TRUE]
            ELSE IF fail = "update" THEN [store |-> [header |-> FALSE, rows |-> <<>>], exc |-> TRUE]
            ELSE [store |-> [header |-> TRUE, rows |-> built.rows], exc |-> FALSE]

(***************************************************************************)
(* The tab on its own: any tab of up to MaxStoreRows rows, rewritten by    *)
(* write_full_state calls with up to MaxWriteRoots roots.                  *)
(***************************************************************************)
MaxStoreRows == 3     \* rows below the header in the initial tab
MaxWriteRoots == 2    \* roots_in_order of one write_full_state call

\* rows of the tab: roots A (done, category x) and a; subtasks p (indented,
\* not started, category y) and P (typed in by hand, effort w) under A
StoreRowPool ==
    << Row(<<"d">>, <<"x">>, <<"A">>, <<>>, <<>>, <<>>),
       Row(<<"n">>, <<"y">>, <<" ", " ", "p">>, <<"A">>, <<>>, <<>>),
       Row(<<>>, <<>>, <<"P">>, <<"A">>, <<"w">>, <<>>),
       Row(<<>>, <<>>, <<"a">>, <<>>, <<>>, <<>>) >>

InitialStores ==
    {[header |-> FALSE, rows |-> <<>>]}
       \cup UNION {{[header |-> TRUE, rows |-> [k \in 1..n |-> StoreRowPool[f[k]]]] :
                       f \in [1..n -> 1..Len(StoreRowPool)]} : n \in 0..MaxStoreRows}

\* a task dict passed to write_full_state
WTask(ref, id, title, parent, category) ==
    [ref |-> ref, id |-> id, title |-> title, parent |-> parent,
     task_list_id |-> IF id = None THEN None ELSE "L", category |-> category,
     effort |-> <<>>, joy |-> <<>>]

\* roots passed: the live roots r1 (A), r2 (A) and r3 (a)
WriteRootPool ==
    << WTask("r1", "r1", <<"A">>, None, <<>>),
       WTask("r2", "r2", <<"A">>, None, <<>>),
       WTask("r3", "r3", <<"a">>, None, <<>>) >>

WriteRootLists ==
    UNION {{[k \in 1..n |-> WriteRootPool[f[k]]] :
               f \in {g \in [1..n -> 1..Len(WriteRootPool)] :
                         \A i, j \in 1..n : i # j => g[i] # g[j]}} : n \in 0..MaxWriteRoots}

\* subtasks passed: c1 (p) and c2 (q) of r1, c3 (p) of r4, with or without
\* a category
WChild(j, title, p, category) ==
    WTask(ChildIdPool[j], ChildIdPool[j], title, RootIdPool[p], category)

\* children_by_parent passed: nothing; r1 with no, one or two subtasks; r4
\* (not a root passed) with one; the title A with one; r1 and the title A
WriteChildMaps ==
    { ByKey(NoKeys, NoKeys),
      ByKey("r1" :> <<>>, NoKeys),
      ByKey("r1" :> <<WChild(1, <<"p">>, 1, <<>>)>>, NoKeys),
      ByKey("r1" :> <<WChild(2, <<"q">>, 1, <<>>), WChild(1, <<"p">>, 1, <<"z">>)>>, NoKeys),
      ByKey("r4" :> <<WChild(3, <<"p">>, 4, <<>>)>>, NoKeys),
      ByKey(NoKeys, <<"A">> :> <<WChild(1, <<"p">>, 1, <<>>)>>),
      ByKey("r1" :> <<WChild(2, <<"q">>, 1, <<>>)>>, <<"A">> :> <<WChild(1, <<"p">>, 1, <<>>)>>) }

WriteArgs ==
    {[roots_in_order |-> r, children_by_parent |-> c] : r \in WriteRootLists, c \in WriteChildMaps}

InitSheet ==
    /\ store \in InitialStores
    /\ snap = NoSnapshot
    /\ ctl = NewController(<<>>, <<>>, <<>>, EmptyDict)
    /\ env = NewEnv
    /\ srt = NoSorter
    /\ hist = NoHist
    /\ mrg = NoMerge

WriteFullState ==
    \E a \in WriteArgs, fail \in FailPoints :
       /\ store' = write_full_state(store, a.roots_in_order, a.children_by_parent, fail).store
       /\ UNCHANGED <<ctl, env, snap, srt, hist, mrg>>

NextSheet == WriteFullState

SpecSheet == InitSheet /\ [][NextSheet]_vars

(***************************************************************************)
(* Claims about the controller (specification Spec).  A claim about what a *)
(* call does is stated over Calls: every call the driver can make from the *)
(* current state with every choice of failing writes, as the record the    *)
(* call ends with (w.c, w.env the state after it, w.log its external calls *)
(* in order, w.exc whether it raised, w.ret the value returned).           *)
(***************************************************************************)
Calls ==
    {[name |-> "current_pair", w |-> w] : w \in CurrentPairCalls}
      \cup {[name |-> "choose_left", w |-> w] : w \in ChooseLeftCalls}
      \cup {[name |-> "choose_right", w |-> w] : w \in ChooseRightCalls}
      \cup {[name |-> "flush", w |-> w] : w \in FlushCalls}

\* the external calls of a log, by kind
IsDelete(ev) == ev.op = "delete"
IsWrite(ev) == ev.op = "write"
WriteOk(ev) == ev.op = "write" /\ ev.ok
DeletedIn(log) == {log[k].id : k \in {m \in 1..Len(log) : IsDelete(log[m])}}

\* id's position was recorded by a successful write before the k-th external
\* call of the log: in an earlier controller call (e.recorded) or earlier in
\* this one
RecordedBefore(e, log, k, id) ==
    \/ id \in e.recorded
    \/ \E j \in 1..(k - 1) : WriteOk(log[j]) /\ id \in log[j].recorded

\* C1: persist-before-delete.  Whenever an external delete is issued for a
\* live item, an earlier write_full_state call has succeeded whose arguments
\* recorded the item: a root in roots_in_order, a child in the finalized
\* list of a parent that is itself in roots_in_order.
C1_PersistBeforeDelete ==
    \A x \in Calls :
       \A k \in 1..Len(x.w.log) :
          IsDelete(x.w.log[k]) => RecordedBefore(env, x.w.log, k, x.w.log[k].id)

ChooseCall(x) == x.name \in {"choose_left", "choose_right"}
FailedWriteIn(log) == \E k \in 1..Len(log) : IsWrite(log[k]) /\ ~log[k].ok
OkWriteIn(log) == \E k \in 1..Len(log) : WriteOk(log[k])
Queue(c, pid) == MapGet(c._pending_child_deletes_by_parent, pid, <<>>)

\* C2: if the persist triggered by the decision that finishes a child group
\* fails, that decide call issues no external delete (no child of the
\* group, not the parent) and the parent's delete queue holds every child
\* enqueued for it: those queued before and the one this decision placed.
C2_FailedFinishDeletesNothing ==
    \A x \in Calls :
       (ChooseCall(x) /\ ~has_work(ctl.roots_sorter) /\ FailedWriteIn(x.w.log))
          => LET pid == ctl.current_parent_id
                 frames == ctl.child_sorter[1].frames
                 cand == frames[Len(frames)][4]
             IN /\ DeletedIn(x.w.log) = {}
                /\ x.w.env.calls = env.calls
                /\ x.w.c.deleted_ids = ctl.deleted_ids
                /\ Queue(x.w.c, pid) = Append(Queue(ctl, pid), cand)

\* C2 witness: the child sorter of a live root finished a group of two or
\* more children, the persist at the finish failed (no write has carried the
\* group), the queue is kept and no child of it has been deleted
C2_Witness ==
    \E pid \in DOMAIN ctl.children_sorted_by_parent_id :
       /\ pid \in Ids(ctl.roots_sorter.sorted)
       /\ Len(ctl.children_sorted_by_parent_id[pid]) >= 2
       /\ pid \notin env.groups
       /\ Queue(ctl, pid) # <<>>
       /\ Ids(Queue(ctl, pid)) \cap ctl.deleted_ids = {}
       /\ pid \notin ctl.deleted_ids

\* C3: the parent of a finalized child group is deleted from the live source
\* only after a write that carries the group's finalized order has
\* succeeded; in particular not after the persist at the finalization
\* failed and before a later one succeeded.
C3_ParentKeptUntilGroupPersisted ==
    \A x \in Calls :
       \A k \in 1..Len(x.w.log) :
          (IsDelete(x.w.log[k])
             /\ x.w.log[k].id \in DOMAIN x.w.c.children_sorted_by_parent_id)
             => \/ x.w.log[k].id \in env.groups
                \/ \E j \in 1..(k - 1) :
                      WriteOk(x.w.log[j]) /\ x.w.log[k].id \in DOMAIN x.w.log[j].children

RECURSIVE IsSubseq(_, _)
IsSubseq(a, b) ==
    IF a = <<>> THEN TRUE
    ELSE IF b = <<>> THEN FALSE
    ELSE IF Head(a) = Head(b) THEN IsSubseq(Tail(a), Tail(b))
    ELSE IsSubseq(a, Tail(b))

\* a write carries what the controller held before: the roots placed, in
\* their order, and every finalized child order under its parent id
Carries(ev, roots, children) ==
    /\ IsSubseq(roots, ev.roots)
    /\ \A pid \in DOMAIN children :
          pid \in DOMAIN ev.children /\ ev.children[pid] = children[pid]

\* C4: a write_full_state call that succeeds carries every change made
\* before it, also the ones whose own persist failed: the roots placed in
\* earlier calls are in roots_in_order in their decided order and the child
\* orders finalized earlier are in the children map under their parent ids;
\* so does a write that succeeds after a failed one of the same call.
C4_NextWriteCarriesUnpersisted ==
    LET roots == Refs(ctl.roots_sorter.sorted)
        children == [pid \in DOMAIN ctl.children_sorted_by_parent_id |->
                        Refs(ctl.children_sorted_by_parent_id[pid])]
    IN \A x \in Calls :
          \A k \in 1..Len(x.w.log) :
             WriteOk(x.w.log[k])
                => /\ Carries(x.w.log[k], roots, children)
                   /\ \A j \in 1..(k - 1) :
                         IsWrite(x.w.log[j])
                            => Carries(x.w.log[k], x.w.log[j].roots, x.w.log[j].children)

\* C4 witness: the persist at the finish of a live root's group of two or
\* more children failed and no write has carried the group since; a flush
\* from here whose write succeeds carries the group's order
C4_Witness ==
    \E pid \in DOMAIN ctl.children_sorted_by_parent_id :
       /\ pid \in Ids(ctl.roots_sorter.sorted)
       /\ Len(ctl.children_sorted_by_parent_id[pid]) >= 2
       /\ pid \notin env.groups
       /\ \E w \in FlushCalls :
             /\ WriteOk(w.log[1])
             /\ w.log[1].children[pid] = Refs(ctl.children_sorted_by_parent_id[pid])
             /\ pid \in w.env.groups

\* C5: a child whose deletion was deferred because the persist at its
\* group's finish failed is deleted once a later persist succeeds: after a
\* call in which a write succeeded, no finalized group has a queued child
\* that is not deleted.
C5_DeferredDeleteRetried ==
    \A x \in Calls :
       OkWriteIn(x.w.log)
          => \A pid \in DOMAIN x.w.c._pending_child_deletes_by_parent
                          \cap DOMAIN x.w.c.children_sorted_by_parent_id :
                \A k \in 1..Len(Queue(x.w.c, pid)) :
                   Queue(x.w.c, pid)[k].id \in x.w.c.deleted_ids

\* the rows the sheet held at session start under the parent with id pid
LedgerChildren(c, pid) ==
    LET sorted == c.roots_sorter.sorted
        hits == {k \in 1..Len(sorted) : sorted[k].id = pid}
    IN IF hits = {} THEN <<>>
       ELSE MapGet(c.baseline_children_by_title, sorted[CHOOSE k \in hits : TRUE].title, <<>>)

NormTitles(l) == [k \in 1..Len(l) |-> _norm(l[k].title)]

\* C6: the finalized order passed to write_full_state for a parent contains
\* every child row the sheet held for that parent at session start, in
\* their original relative order (a row counts as contained if an item of
\* the finalized order has its normalized title).
C6_FinalizedOrderKeepsLedgerChildren ==
    \A x \in Calls :
       \A k \in 1..Len(x.w.log) :
          IsWrite(x.w.log[k])
             => \A pid \in DOMAIN x.w.log[k].children :
                   LET passed == x.w.log[k].children[pid]
                       items == SelectSeq(x.w.c.children_sorted_by_parent_id[pid],
                                          LAMBDA t : \E m \in 1..Len(passed) : passed[m] = t.ref)
                   IN IsSubseq(NormTitles(LedgerChildren(x.w.c, pid)), NormTitles(items))

\* the children that are the only pending child of their parent, pending or
\* finalized
OnlyChildren(c) ==
    {c.children_remaining_by_parent_id.val[pid][1].ref :
        pid \in {q \in DOMAIN c.children_remaining_by_parent_id.val :
                    Len(c.children_remaining_by_parent_id.val[q]) = 1}}
      \cup {c.children_sorted_by_parent_id[pid][1].ref :
               pid \in {q \in DOMAIN c.children_sorted_by_parent_id :
                           Len(c.children_sorted_by_parent_id[q]) = 1}}

\* C7: trivial-group fast path.  A child that is the only pending child of
\* its parent is never in a pair current_pair returns (the only children are
\* the same before and after every call, and no call returns one); the
\* current_pair call that gets past the root phase finalizes it as its
\* parent's single-element order, passes that order to a write_full_state
\* call, and, when that write succeeds, deletes the child from the live
\* source after it.
C7_TrivialFastPath ==
    LET only == OnlyChildren(ctl)
    IN \A x \in Calls :
          /\ OnlyChildren(x.w.c) = only
          /\ RefSet(x.w.ret) \cap only = {}
          /\ (x.name = "current_pair" /\ ~x.w.exc /\ ~has_work(x.w.c.roots_sorter))
                => \A pid \in DOMAIN ctl.children_remaining_by_parent_id.val :
                      Len(ctl.children_remaining_by_parent_id.val[pid]) = 1
                         => LET child == ctl.children_remaining_by_parent_id.val[pid][1]
                                log == x.w.log
                                first == {k \in 1..Len(log) :
                                             /\ IsWrite(log[k]) /\ pid \in DOMAIN log[k].children
                                             /\ \A j \in 1..(k - 1) :
                                                   IsWrite(log[j])
                                                      => pid \notin DOMAIN log[j].children}
                            IN /\ x.w.c.children_sorted_by_parent_id[pid] = <<child>>
                               /\ x.w.c.children_remaining_by_parent_id.val[pid] = <<>>
                               /\ \E k \in first :
                                     /\ log[k].children[pid] = <<child.ref>>
                                     /\ log[k].ok
                                           => \E m \in (k + 1)..Len(log) :
                                                 IsDelete(log[m]) /\ log[m].id = child.id

\* C7 witness: a one-child group of a live root has been finalized, a write
\* that carried it has succeeded and the child has been deleted
C7_Witness ==
    \E pid \in DOMAIN ctl.children_sorted_by_parent_id :
       /\ pid \in Ids(ctl.roots_sorter.sorted)
       /\ Len(ctl.children_sorted_by_parent_id[pid]) = 1
       /\ pid \in env.groups
       /\ ctl.children_sorted_by_parent_id[pid][1].id \in ctl.deleted_ids
       /\ env.calls[ctl.children_sorted_by_parent_id[pid][1].id] = 1

\* every task object the controller holds
ListsOf(c) ==
    {c.roots_sorter.sorted, c.roots_sorter.remaining, c.baseline_roots}
      \cup {c.children_sorted_by_parent_id[pid] : pid \in DOMAIN c.children_sorted_by_parent_id}
      \cup {c.children_remaining_by_parent_id.val[pid] :
               pid \in DOMAIN c.children_remaining_by_parent_id.val}
      \cup {Queue(c, pid) : pid \in DOMAIN c._pending_child_deletes_by_parent}
TasksOf(c) == UNION {{l[k] : k \in 1..Len(l)} : l \in ListsOf(c)}

\* C8: idempotent delete.  At most one external delete call is issued per
\* item id, and _delete_task on a task whose id is already in deleted_ids
\* issues no external call and changes no state.
C8_IdempotentDelete ==
    /\ \A id \in DOMAIN env.calls : env.calls[id] <= 1
    /\ \A t \in TasksOf(ctl) :
          t.id \in ctl.deleted_ids
             => _delete_task(BeginCall(ctl, env, {}), t) = BeginCall(ctl, env, {})

\* C8 witness: a root was deleted in an earlier call; a flush from here
\* reaches _delete_task for it again and issues no external delete
C8_Witness ==
    \E k \in 1..Len(ctl.roots_sorter.sorted) :
       LET t == ctl.roots_sorter.sorted[k]
           w == flush(BeginCall(ctl, env, {}))
       IN /\ t.id \in ctl.deleted_ids
          /\ env.calls[t.id] = 1
          /\ t.id \in DOMAIN ctl.children_remaining_by_parent_id.val
          /\ ~_parent_has_unprocessed_children(ctl, t.id)
          /\ ~w.exc
          /\ t.id \notin DeletedIn(w.log)
          /\ w.env.calls = env.calls

\* the controller as constructed from the snapshots of the session
Constructed == NewController(snap.roots_from_sheet, snap.children_from_sheet_by_title,
                             snap.roots_from_gt, snap.children_from_gt_by_id)

\* the parents whose child ranking is finalized in the controller c, given
\* the groups of live subtasks the reconciliation left to rank: those with
\* such a group, none of it pending any more and none inside a child sorter
\* that has work left
SorterItems(s) ==
    RefSet(s.sorted) \cup RefSet(s.remaining) \cup {s.frames[k][4].ref : k \in 1..Len(s.frames)}
Unfinished(c) == c.child_sorter # <<>> /\ has_work(c.child_sorter[1])
FinalizedParents(groups, c) ==
    {pid \in DOMAIN groups :
        /\ groups[pid] # <<>>
        /\ DictGet(c.children_remaining_by_parent_id, pid, <<>>) = <<>>
        /\ ~(Unfinished(c) /\ c.current_parent_id = pid)}
NotRanked(c) ==
    UNION {RefSet(c.children_remaining_by_parent_id.val[pid]) :
              pid \in DOMAIN c.children_remaining_by_parent_id.val}
      \cup (IF Unfinished(c) THEN SorterItems(c.child_sorter[1]) ELSE {})
PassedIn(ev) == UNION {{ev.children[pid][k] : k \in 1..Len(ev.children[pid])} : pid \in DOMAIN ev.children}

\* C20: children are written only for finished parents.  In every
\* write_full_state call the controller issues, the keys of the children map
\* are parents whose child ranking is finalized: all those finalized before
\* the controller call, none that is not finalized after it, and in the last
\* write of the call exactly those finalized after it; and no subtask passed
\* is pending or inside an unfinished child sorter when the call returns.
C20_ChildrenOnlyForFinishedParents ==
    LET groups == _reconcile_sheet_with_google(
                      snap.roots_from_sheet, snap.children_from_sheet_by_title,
                      snap.roots_from_gt, snap.children_from_gt_by_id).remaining_children.val
        before == FinalizedParents(groups, ctl)
    IN \A x \in Calls :
          LET after == FinalizedParents(groups, x.w.c)
              not_ranked == NotRanked(x.w.c)
          IN \A k \in 1..Len(x.w.log) :
                IsWrite(x.w.log[k]) =>
                   /\ before \subseteq DOMAIN x.w.log[k].children
                   /\ DOMAIN x.w.log[k].children \subseteq after
                   /\ (\A j \in (k + 1)..Len(x.w.log) : ~IsWrite(x.w.log[j]))
                         => DOMAIN x.w.log[k].children = after
                   /\ PassedIn(x.w.log[k]) \cap not_ranked = {}

\* one parent's group is finalized and recorded while another parent's
\* child sorter has work left, and flush writes the first group only
C20_Witness ==
    /\ env.groups # {}
    /\ Unfinished(ctl)
    /\ ctl.current_parent_id \notin env.groups
    /\ \E w \in FlushCalls :
          /\ WriteOk(w.log[1])
          /\ DOMAIN w.log[1].children = env.groups
          /\ PassedIn(w.log[1]) # {}

(***************************************************************************)
(* Claims about the sorter (specification SpecSorter)                      *)
(***************************************************************************)
InList(l, ref) == \E k \in 1..Len(l) : l[k].ref = ref
Pos(l, ref) == CHOOSE k \in 1..Len(l) : l[k].ref = ref

\* C9: insertion correctness.  When the sorter has no work left, sorted is
\* consistent with every decision it received: for each answered pair
\* (candidate, probe) the candidate precedes the probe if the answer was
\* choose_left = True and follows it otherwise.
C9_SortedConsistentWithDecisions ==
    ~has_work(srt)
       => \A a \in hist.asked :
             /\ InList(srt.sorted, a[1]) /\ InList(srt.sorted, a[2])
             /\ a[3] => Pos(srt.sorted, a[1]) < Pos(srt.sorted, a[2])
             /\ ~a[3] => Pos(srt.sorted, a[1]) > Pos(srt.sorted, a[2])

\* C9 witness: a finished sorter that placed several candidates with
\* answers of both kinds
C9_Witness ==
    /\ ~has_work(srt)
    /\ Len(srt.sorted) >= 4
    /\ Cardinality(hist.asked) >= 3
    /\ \E a, b \in hist.asked : a[3] /\ ~b[3]

CeilLog2(i) == CHOOSE k \in 0..i : 2^k >= i /\ (k = 0 \/ 2^(k - 1) < i)
FloorLog2(i) == CHOOSE k \in 0..i : 2^k <= i /\ 2^(k + 1) > i

\* C10 as stated: placing a candidate against an ordered list of size i - 1
\* (i >= 2) takes exactly ceil(log2(i)) calls to decide.
C10_ExactlyCeilLog2 ==
    (hist.last # <<>> /\ hist.last[1].m >= 1)
       => hist.last[1].n = CeilLog2(hist.last[1].m + 1)

\* C10 as amended: it takes at least floor(log2(i)) and at most
\* ceil(log2(i)) calls to decide.
C10_BetweenFloorAndCeilLog2 ==
    (hist.last # <<>> /\ hist.last[1].m >= 1)
       => /\ hist.last[1].n >= FloorLog2(hist.last[1].m + 1)
          /\ hist.last[1].n <= CeilLog2(hist.last[1].m + 1)

\* C10 witness: a candidate placed against two or more items with fewer than
\* ceil(log2(i)) decisions
C10_Witness ==
    /\ hist.last # <<>>
    /\ hist.last[1].m >= 2
    /\ hist.last[1].n = FloorLog2(hist.last[1].m + 1)
    /\ hist.last[1].n < CeilLog2(hist.last[1].m + 1)

\* the initial already_sorted items among the items of l, in l's order
BaselineOf(l) == SelectSeq(Refs(l), LAMBDA r : \E k \in 1..Len(BaseRefPool) : BaseRefPool[k] = r)

\* C11: baseline stability.  In every reachable state of a sorter the items
\* of the initial already_sorted appear in sorted in their original relative
\* order, each once: no call of the sorter reorders, removes or duplicates
\* one.
C11_BaselineStable ==
    /\ [](BaselineOf(srt.sorted) = SubSeq(BaseRefPool, 1, Len(BaselineOf(srt.sorted))))
    /\ [][BaselineOf(srt'.sorted) = BaselineOf(srt.sorted)]_vars

\* C11 witness: a finished sorter whose full baseline has new items before,
\* between and after its items
C11_Witness ==
    /\ ~has_work(srt)
    /\ Len(BaselineOf(srt.sorted)) = MaxBaseline
    /\ Len(srt.sorted) >= MaxBaseline + 3
    /\ srt.sorted[1].ref \notin {BaseRefPool[k] : k \in 1..Len(BaseRefPool)}
    /\ srt.sorted[Len(srt.sorted)].ref \notin {BaseRefPool[k] : k \in 1..Len(BaseRefPool)}
    /\ \E k \in 2..(Len(srt.sorted) - 1) :
          /\ srt.sorted[k].ref \notin {BaseRefPool[j] : j \in 1..Len(BaseRefPool)}
          /\ srt.sorted[k - 1].ref = BaseRefPool[1]

(***************************************************************************)
(* Claims about reconciliation (specification SpecReconcile)               *)
(***************************************************************************)
\* the live snapshot has the ledger's roots, one for one with equal
\* normalized titles, and under each of them the ledger's children of that
\* root, one for one with equal normalized titles; neither side has other
\* children
SameSnapshots(sn) ==
    /\ Len(sn.roots_from_sheet) = Len(sn.roots_from_gt)
    /\ NormTitles(sn.roots_from_sheet) = NormTitles(sn.roots_from_gt)
    /\ \A k \in 1..Len(sn.roots_from_sheet) :
          NormTitles(MapGet(sn.children_from_sheet_by_title, sn.roots_from_sheet[k].title, <<>>))
             = NormTitles(DictGet(sn.children_from_gt_by_id, sn.roots_from_gt[k].id, <<>>))
    /\ DOMAIN sn.children_from_sheet_by_title \subseteq
          {sn.roots_from_sheet[k].title : k \in 1..Len(sn.roots_from_sheet)}
    /\ DOMAIN sn.children_from_gt_by_id.val \subseteq Ids(sn.roots_from_gt)

\* C12: resumability.  Reconciling a ledger snapshot against a live snapshot
\* with the same roots and the same children under each parent leaves no
\* root and, for every parent id, no child to rank, and the first
\* current_pair of the session offers no pair.
C12_Resumability ==
    SameSnapshots(snap)
       => /\ Constructed.roots_sorter.remaining = <<>>
          /\ \A pid \in DOMAIN Constructed.children_remaining_by_parent_id.val :
                Constructed.children_remaining_by_parent_id.val[pid] = <<>>
          /\ current_pair(BeginCall(Constructed, NewEnv, {})).ret = <<>>

\* the live roots whose normalized title is that of no ledger root
MatchesOf(sn, r) ==
    {j \in 1..Len(sn.roots_from_sheet) : _norm(sn.roots_from_sheet[j].title) = _norm(r.title)}
Unmatched(sn) == SelectSeq(sn.roots_from_gt, LAMBDA r : MatchesOf(sn, r) = {})

LedgerChildIds(c) ==
    UNION {Ids(c.baseline_children_by_title[t]) : t \in DOMAIN c.baseline_children_by_title}
MatchedLive(sn) ==
    LET ids == LedgerChildIds(Constructed)
        lists == sn.children_from_gt_by_id.val
    IN {sn.roots_from_gt[k] : k \in {j \in 1..Len(sn.roots_from_gt) :
                                        MatchesOf(sn, sn.roots_from_gt[j]) # {}}}
         \cup UNION {{lists[pid][k] : k \in {j \in 1..Len(lists[pid]) : lists[pid][j].id \in ids}} :
                        pid \in DOMAIN lists}

\* C14: no self-comparison.  In no pair current_pair returns are candidate
\* and probe the same item or two items with the same id, and the candidate
\* is never a live item that was matched to a ledger item, nor the ledger
\* item that took its id.
C14_NoSelfComparison ==
    LET matched == MatchedLive(snap)
    IN \A x \in Calls :
          (x.name = "current_pair" /\ x.w.ret # <<>>)
             => LET cand == x.w.ret[1]
                    probe == x.w.ret[2]
                IN /\ cand.ref # probe.ref
                   /\ cand.id # None => cand.id # probe.id
                   /\ cand.ref \notin {t.ref : t \in matched}
                   /\ cand.id \notin {t.id : t \in matched}

\* C14 witness: current_pair offers an unmatched live root against the
\* ledger root that a matched live root was merged into
C14_Witness ==
    \E w \in CurrentPairCalls :
       /\ w.ret # <<>>
       /\ w.ret[1].id # None
       /\ w.ret[2].id \in {t.id : t \in MatchedLive(snap)}
       /\ w.ret[2].ref \in RefSet(snap.roots_from_sheet)

(***************************************************************************)
(* Claims about the tab (specification SpecSheet).  A claim about what a   *)
(* write_full_state call does is stated over WriteArgs: every call that    *)
(* can be made on the current tab.                                         *)
(***************************************************************************)
\* the call with none of its remote calls failing
Written(a) == write_full_state(store, a.roots_in_order, a.children_by_parent, "none")

\* the live snapshot a call's arguments contain: the roots with an id and
\* the subtask lists passed under parent ids
RECURSIVE AsSeq(_)
AsSeq(S) == IF S = {} THEN <<>> ELSE LET x == CHOOSE y \in S : TRUE IN <<x>> \o AsSeq(S \ {x})
LiveRootsOf(a) == SelectSeq(a.roots_in_order, LAMBDA t : t.id # None)
LiveChildrenOf(a) ==
    [keys |-> AsSeq(DOMAIN a.children_by_parent.ids), val |-> a.children_by_parent.ids]

\* what reconciliation leaves to be ranked when the tab st is read back and
\* reconciled against the live snapshot of a
RoundTrip(st, a) ==
    LET rd == read_full_state(st)
    IN _reconcile_sheet_with_google(rd.roots, rd.children_by_parent,
                                    LiveRootsOf(a), LiveChildrenOf(a))
NothingRemains(rc) ==
    /\ rc.remaining_roots = <<>>
    /\ \A pid \in DOMAIN rc.remaining_children.val : rc.remaining_children.val[pid] = <<>>

\* C15: round trip.  After a successful write_full_state whose arguments
\* contain every live root and every live subtask under its parent's id,
\* reading the tab back and reconciling it against the same live snapshot
\* leaves no root and no subtask to be ranked.
C15_RoundTrip ==
    \A a \in WriteArgs :
       LET w == Written(a) IN ~w.exc => NothingRemains(RoundTrip(w.store, a))

\* the subtask rows the tab st holds under the parent title t, in row
\* order, each with its cells stripped
ChildRowsUnder(st, t) == SelectSeq(Body(st), LAMBDA r : r.title # <<>> /\ r.parent = t)

\* C16: carry-forward of non-finalized children.  For every root of
\* roots_in_order whose id and title are both absent from the keys of
\* children_by_parent, the subtask rows the tab holds under the root's title
\* after a successful write_full_state are the same subtasks, in the same
\* order, as the tab held under that title before the write.
C16_CarryForward ==
    \A a \in WriteArgs :
       LET w == Written(a)
       IN ~w.exc =>
             \A k \in 1..Len(a.roots_in_order) :
                LET root == a.roots_in_order[k]
                IN ~Finalized(root, a.children_by_parent)
                      => ChildRowsUnder(w.store, _s(root.title))
                            = ChildRowsUnder(store, _s(root.title))

\* a root of roots_in_order that is not finalized, and under whose title the
\* tab holds subtask rows that the write would not all write back: a
\* non-finalized parent is written with the stored rows of its title, one
\* row for each normalized title
HasDuplicate(rows) ==
    \E i, j \in 1..Len(rows) : i < j /\ _norm(rows[i].title) = _norm(rows[j].title)
WouldLose(st, a) ==
    \E k \in 1..Len(a.roots_in_order) :
       LET root == a.roots_in_order[k]
       IN /\ _s(root.title) # <<>>
          /\ ~Finalized(root, a.children_by_parent)
          /\ HasDuplicate(ChildRowsUnder(st, _s(root.title)))

C18_IdempotentRewrite ==
    \A a \in WriteArgs :
       LET w == Written(a)
           again == write_full_state(w.store, a.roots_in_order, a.children_by_parent, "none")
       IN ~w.exc => ~again.exc /\ again.store = w.store

\* the row written for the task under the parent title, given the cells
\* old the tab held under the key (parent title, title): a row of the tab
\* after the write with that key, the old Status, the supplied Category,
\* Effort and Joy where they are not blank and the old ones where they are
Supplied(task, field) == _s(TaskGet(task, field))
WrittenFor(after, old, task, parent) ==
    \E k \in 1..Len(after.rows) :
       LET row == StrippedRow(after.rows[k])
       IN /\ row.parent = parent
          /\ row.title = _s(task.title)
          /\ row.status = old.status
          /\ \A field \in {"category", "effort", "joy"} :
                row[field] = IF Supplied(task, field) = <<>> THEN old[field]
                             ELSE Supplied(task, field)

\* the subtasks passed for the root, under its id and under its title
PassedFor(root, by_key) ==
    MapGet(by_key.ids, root.id, <<>>) \o MapGet(by_key.titles, _s(root.title), <<>>)

\* C19: metadata preservation.  The cells stored under a key (parent title,
\* title) are those of the last row of the tab with the key.  Every row a
\* successful write_full_state writes under a key the tab already holds has
\* the Status stored under the key; and the row of every root passed and of
\* every subtask passed for a root, when the tab holds its key, has the
\* stored Category, Effort and Joy where the supplied value is blank and the
\* supplied value where it is not.
C19_MetadataPreserved ==
    LET stored == _read_existing_preserve_map(store)
    IN \A a \in WriteArgs :
          LET w == Written(a)
          IN ~w.exc =>
                /\ \A k \in 1..Len(w.store.rows) :
                      LET row == StrippedRow(w.store.rows[k])
                      IN <<row.parent, row.title>> \in DOMAIN stored
                            => row.status = stored[<<row.parent, row.title>>].status
                /\ \A k \in 1..Len(a.roots_in_order) :
                      LET root == a.roots_in_order[k]
                          subs == PassedFor(root, a.children_by_parent)
                      IN /\ <<<<>>, _s(root.title)>> \in DOMAIN stored
                               => WrittenFor(w.store, stored[<<<<>>, _s(root.title)>>], root, <<>>)
                         /\ \A j \in 1..Len(subs) :
                               <<_s(root.title), _s(subs[j].title)>> \in DOMAIN stored
                                  => WrittenFor(w.store,
                                                stored[<<_s(root.title), _s(subs[j].title)>>],
                                                subs[j], _s(root.title))

\* the tab holds the rows A (done, category x) and p under A (not started,
\* category y); the roots r1 (A) and the subtasks q and p, p with the
\* category z, are written: A keeps done and x, p keeps not started and
\* becomes z
C19_Witness ==
    LET stored == _read_existing_preserve_map(store)
    IN /\ {<<<<>>, <<"A">>>>, <<<<"A">>, <<"p">>>>} \subseteq DOMAIN stored
       /\ stored[<<<<>>, <<"A">>>>].status = <<"d">>
       /\ stored[<<<<"A">>, <<"p">>>>].status = <<"n">>
       /\ stored[<<<<"A">>, <<"p">>>>].category = <<"y">>
       /\ \E a \in WriteArgs :
             LET w == Written(a)
             IN /\ ~w.exc
                /\ \E k \in 1..Len(a.roots_in_order) :
                      /\ a.roots_in_order[k].id = "r1"
                      /\ Len(PassedFor(a.roots_in_order[k], a.children_by_parent)) = 2
                /\ \E k \in 1..Len(w.store.rows) :
                      w.store.rows[k] = Row(<<"d">>, <<"x">>, <<"A">>, <<>>, <<>>, <<>>)
                /\ \E k \in 1..Len(w.store.rows) :
                      w.store.rows[k]
                         = Row(<<"n">>, <<"z">>, <<" ", " ", "p">>, <<"A">>, <<>>, <<>>)

(***************************************************************************)
(* Further claims about reconciliation (specification SpecReconcile)       *)
(***************************************************************************)
\* C21: duplicate-key policy.  When two live roots have the same normalized
\* title and a ledger root has that title, the first of the two in live
\* order is merged with the ledger root (a ledger root of that title carries
\* its id) and the later one is not merged but is in the root sorter's
\* pending list.
C21_DuplicateKeyPolicy ==
    LET c == Constructed
    IN \A k1, k2 \in 1..Len(snap.roots_from_gt) :
          LET first == snap.roots_from_gt[k1]
              later == snap.roots_from_gt[k2]
              matches == MatchesOf(snap, first)
          IN (k1 < k2 /\ _norm(first.title) = _norm(later.title) /\ matches # {}
                /\ \A k0 \in 1..(k1 - 1) : _norm(snap.roots_from_gt[k0].title) # _norm(first.title))
                => /\ \E j \in matches : c.baseline_roots[j].id = first.id
                   /\ \A j \in 1..Len(c.baseline_roots) : c.baseline_roots[j].id # later.id
                   /\ later.ref \in RefSet(c.roots_sorter.remaining)

(***************************************************************************)
(* Further claims about the tab (specification SpecSheet)                  *)
(***************************************************************************)
\* C26: a write_full_state call that fails part-way leaves the stored rows
\* intact.  Whichever remote call of a write raises, the tab after the
\* failed call is the tab before it (the content the last successful write
\* left), and the same call made again with no remote call failing does what
\* it would have done on the tab before.
C26_FailedWriteLeavesRows ==
    \A a \in WriteArgs, fail \in FailPoints :
       LET r == write_full_state(store, a.roots_in_order, a.children_by_parent, fail)
       IN r.exc
             => /\ r.store = store
                /\ write_full_state(r.store, a.roots_in_order, a.children_by_parent, "none")
                      = Written(a)

(***************************************************************************)
(* Further claims about the controller (specification SpecGroups)          *)
(***************************************************************************)
\* the roots flush is to delete: in the root order with a live id, not yet
\* deleted, with no pending children and no active child sort with work left
ReadyRoots(c) ==
    {id \in Ids(c.roots_sorter.sorted) \ c.deleted_ids :
        /\ DictGet(c.children_remaining_by_parent_id, id, <<>>) = <<>>
        /\ ~(c.current_parent_id = id /\ c.child_sorter # <<>> /\ has_work(c.child_sorter[1]))}

C23_DeletionReadiness ==
    \A x \in Calls :
       \A k \in 1..Len(x.w.log) :
          LET ev == x.w.log[k]
          IN (IsDelete(ev) /\ ev.parent = None) => (ev.remaining = 0 /\ ~ev.sorting)

\* C23 witness: a root's child group has just been finished and persisted
\* and the root deleted, while the other root, whose children are pending,
\* is kept
C23_Witness ==
    \E pid \in ctl.deleted_ids \cap Ids(ctl.roots_sorter.sorted) :
       /\ Len(MapGet(ctl.children_sorted_by_parent_id, pid, <<>>)) >= 2
       /\ \E other \in Ids(ctl.roots_sorter.sorted) \ ctl.deleted_ids :
             Len(DictGet(ctl.children_remaining_by_parent_id, other, <<>>)) >= 2

\* the calls the driver can make from the current state with the external
\* deletes of the ids in dfails raising
CallsFailing(dfails) ==
    LET Begin(fails) == [BeginCall(ctl, env, fails) EXCEPT !.dfails = dfails]
    IN {[name |-> "current_pair", fails |-> fails, w |-> current_pair(Begin(fails))] :
           fails \in SUBSET WriteNumbers("current_pair")}
         \cup {[name |-> "choose_left", fails |-> fails, w |-> _decide(Begin(fails), TRUE)] :
                  fails \in SUBSET WriteNumbers("choose_left")}
         \cup {[name |-> "choose_right", fails |-> fails, w |-> _decide(Begin(fails), FALSE)] :
                  fails \in SUBSET WriteNumbers("choose_right")}
         \cup {[name |-> "flush", fails |-> fails, w |-> flush(Begin(fails))] :
                  fails \in SUBSET WriteNumbers("flush")}

\* the log without the outcomes of the deletes
Outcomeless(log) ==
    [k \in 1..Len(log) |-> IF IsDelete(log[k]) THEN [log[k] EXCEPT !.ok = TRUE] ELSE log[k]]

\* C24: a failing external delete is swallowed.  Whichever external deletes
\* raise during a call, every id the call issued a delete for, the failed
\* ones included, is in deleted_ids after the call, and the call ends as the
\* same call with no delete failing: same controller, same return value,
\* raising or not alike, and the same external calls in the same order.
C24_DeleteFailureSwallowed ==
    LET good == CallsFailing({})
        ids == UNION {DeletedIn(x.w.log) : x \in good}
    IN \A dfails \in SUBSET ids :
          \A y \in CallsFailing(dfails) :
             /\ DeletedIn(y.w.log) \subseteq y.w.c.deleted_ids
             /\ \E x \in good :
                   /\ x.name = y.name /\ x.fails = y.fails
                   /\ y.w.c = x.w.c
                   /\ y.w.env = x.w.env
                   /\ y.w.ret = x.w.ret
                   /\ y.w.exc = x.w.exc
                   /\ Outcomeless(y.w.log) = x.w.log

\* C24 witness: a decision is possible that finishes a child group, in which
\* the delete of a subtask raises and the deletes of the other subtask and
\* of the parent are issued all the same
C24_Witness ==
    \E id \in {ChildIdPool[k] : k \in 1..Len(ChildIdPool)} :
       \E y \in CallsFailing({id}) :
          /\ y.name = "choose_left"
          /\ \E k \in 1..Len(y.w.log) : IsDelete(y.w.log[k]) /\ ~y.w.log[k].ok
          /\ ctl.current_parent_id \in y.w.c.deleted_ids
          /\ id \in y.w.c.deleted_ids
          /\ ~y.w.exc

\* the position of the first delete of id in the log, 0 if there is none
DeletePos(log, id) ==
    LET at == {k \in 1..Len(log) : IsDelete(log[k]) /\ log[k].id = id}
    IN IF at = {} THEN 0 ELSE CHOOSE k \in at : \A m \in at : k <= m

\* C25: when a decision finishes a child group of two or more children and
\* its persist succeeds, every child in the group's finalized order, the
\* first child, which the sorter placed without a comparison, included, is
\* deleted from the live source by the end of that decide call, and before
\* the parent is.
C25_WholeGroupDeleted ==
    \A x \in Calls :
       LET pid == ctl.current_parent_id
           w == x.w
       IN (/\ ChooseCall(x)
           /\ ~has_work(ctl.roots_sorter)
           /\ ctl.child_sorter # <<>> /\ pid # None
           /\ w.c.child_sorter = <<>>
           /\ OkWriteIn(w.log)
           /\ Len(MapGet(w.c.children_sorted_by_parent_id, pid, <<>>)) >= 2)
             => \A id \in Ids(w.c.children_sorted_by_parent_id[pid]) :
                   /\ id \in w.c.deleted_ids
                   /\ id \in DeletedIn(w.log) \cup ctl.deleted_ids
                   /\ DeletePos(w.log, pid) # 0 => DeletePos(w.log, id) < DeletePos(w.log, pid)

\* the call offers a pair of subtasks, or finalizes a child group (through
\* the one-child fast path or by finishing a child sort)
IsChild(t) == t.parent # None
OffersChildPair(w) == w.ret # <<>> /\ (IsChild(w.ret[1]) \/ IsChild(w.ret[2]))
FinalizesGroup(c, w) ==
    DOMAIN w.c.children_sorted_by_parent_id # DOMAIN c.children_sorted_by_parent_id

\* a successful write of the root order `order` precedes the first write
\* that carries a finalized child list other than those of c, and a write
\* of it has succeeded before the call ends
RootOrderWrittenFirst(e, c, log, order) ==
    \/ e.order = order
    \/ \E j \in 1..Len(log) :
          /\ WriteOk(log[j]) /\ log[j].roots = order
          /\ \A i \in 1..(j - 1) :
                IsWrite(log[i]) /\ DOMAIN log[i].children = DOMAIN c.children_sorted_by_parent_id

\* C27: phase ordering.  A call that offers a pair of subtasks or finalizes
\* a child group leaves the root sorter without work, starts with it
\* without work unless it is the current_pair call that places the only
\* root, and, when there is a root, the root order it leaves (the final one)
\* has been written successfully: in an earlier call or in this one before
\* any write carrying the group.
C27_PhaseOrdering ==
    \A x \in Calls :
       (OffersChildPair(x.w) \/ FinalizesGroup(ctl, x.w))
          => /\ ~has_work(x.w.c.roots_sorter)
             /\ has_work(ctl.roots_sorter)
                   => (x.name = "current_pair" /\ ctl.roots_sorter.sorted = <<>>
                         /\ ctl.roots_sorter.frames = <<>>)
             /\ x.w.c.roots_sorter.sorted # <<>>
                   => RootOrderWrittenFirst(env, ctl, x.w.log, Refs(x.w.c.roots_sorter.sorted))

\* C27 witness: with the roots ranked and their order written, current_pair
\* is about to offer a pair of subtasks, and a group has been finalized
C27_Witness ==
    /\ Len(ctl.roots_sorter.sorted) >= 2
    /\ env.order = Refs(ctl.roots_sorter.sorted)
    /\ DOMAIN ctl.children_sorted_by_parent_id # {}
    /\ \E w \in CurrentPairCalls : OffersChildPair(w)

\* the position of the root with id pid in the root order, 0 if none
RootPos(c, pid) ==
    LET at == {k \in 1..Len(c.roots_sorter.sorted) : c.roots_sorter.sorted[k].id = pid}
    IN IF at = {} THEN 0 ELSE CHOOSE k \in at : \A m \in at : k <= m

\* the items a sorter holds
HeldBy(s) ==
    {s.sorted[k] : k \in 1..Len(s.sorted)} \cup {s.remaining[k] : k \in 1..Len(s.remaining)}
       \cup {s.frames[k][4] : k \in 1..Len(s.frames)}

\* C28: child groups are activated one at a time in the final root order.
\* Whenever current_pair returns a pair of subtasks of parent Q, every
\* parent P before Q in the root order that started with two or more
\* pending children has its group finished (its finalized order is set and
\* it has no pending children), Q is the one active parent, and every item
\* the child sorter holds is a child of Q.
C28_GroupsInRootOrder ==
    LET groups == Constructed.children_remaining_by_parent_id
    IN \A w \in CurrentPairCalls :
          OffersChildPair(w)
             => LET q == w.ret[1].parent
                IN /\ w.c.current_parent_id = q
                   /\ \A t \in HeldBy(w.c.child_sorter[1]) : t.parent = q
                   /\ \A k \in 1..(RootPos(w.c, q) - 1) :
                         LET p == w.c.roots_sorter.sorted[k].id
                         IN Len(DictGet(groups, p, <<>>)) >= 2
                               => /\ p \in DOMAIN w.c.children_sorted_by_parent_id
                                  /\ DictGet(w.c.children_remaining_by_parent_id, p, <<>>) = <<>>
                                  /\ Ids(w.c.children_sorted_by_parent_id[p])
                                        = Ids(DictGet(groups, p, <<>>))

\* C28 witness: the first parent's group of two is finished and current_pair
\* offers the pair of the second parent's group of two
C28_Witness ==
    \E w \in CurrentPairCalls :
       /\ OffersChildPair(w)
       /\ RootPos(w.c, w.ret[1].parent) = 2
       /\ Len(MapGet(w.c.children_sorted_by_parent_id, w.c.roots_sorter.sorted[1].id, <<>>)) >= 2

\* the live subtasks fetched under parent id pid
LiveGroup(sn, pid) == RefSet(DictGet(sn.children_from_gt_by_id, pid, <<>>))

\* C29: every pair current_pair returns is within one group.  Either both
\* items are roots (neither has a parent), or both are live subtasks fetched
\* under one and the same parent id, which is the active parent; two
\* different items in either case.
C29_PairWithinOneGroup ==
    \A w \in CurrentPairCalls :
       w.ret # <<>>
          => LET cand == w.ret[1]
                 probe == w.ret[2]
             IN /\ cand.ref # probe.ref
                /\ cand.parent = probe.parent
                /\ cand.parent = None
                      => {cand.ref, probe.ref}
                            \subseteq RefSet(snap.roots_from_sheet) \cup RefSet(snap.roots_from_gt)
                /\ cand.parent # None
                      => /\ cand.parent = w.c.current_parent_id
                         /\ {cand.ref, probe.ref} \subseteq LiveGroup(snap, cand.parent)

\* C29 witness: current_pair offers a pair of one parent's subtasks while
\* the other parent has two or more subtasks pending
C29_Witness ==
    \E w \in CurrentPairCalls :
       /\ OffersChildPair(w)
       /\ \E other \in DOMAIN w.c.children_remaining_by_parent_id.val :
             /\ other # w.ret[1].parent
             /\ Len(w.c.children_remaining_by_parent_id.val[other]) >= 2

(***************************************************************************)
(* Claims about the ranking loop (specification SpecSession)               *)
(***************************************************************************)
\* no pair is on display and current_pair returns None, whichever writes fail
Finished ==
    /\ ~PairOnOffer(ctl)
    /\ \A w \in CurrentPairCalls : ~w.exc /\ w.ret = <<>>

\* C30: termination.  From every ledger and live snapshot and under every
\* sequence of answers, the loop of current_pair and decisions reaches a
\* state in which current_pair returns None, given that the write of the
\* final root order eventually succeeds; the writes of the child phase may
\* fail every time.
C30_Termination == <>Finished

\* C30 witness: the loop has ended although the write that carried a group
\* of two subtasks failed
C30_Witness ==
    /\ Finished
    /\ \E pid \in DOMAIN ctl.children_sorted_by_parent_id :
          /\ Len(ctl.children_sorted_by_parent_id[pid]) >= 2
          /\ pid \notin env.groups

(***************************************************************************)
(* Further claims about the controller (specification Spec)                *)
(***************************************************************************)
\* C31: done condition.  Whenever current_pair returns None (and does not
\* raise), the root sorter has no work, the child sorter, if any, has no
\* work, and children_remaining_by_parent_id is empty for every parent id
\* it holds, the parent ids that match no root included.
C31_DoneCondition ==
    \A w \in CurrentPairCalls :
       (~w.exc /\ w.ret = <<>>)
          => /\ ~has_work(w.c.roots_sorter)
             /\ w.c.child_sorter # <<>> => ~has_work(w.c.child_sorter[1])
             /\ \A pid \in DOMAIN w.c.children_remaining_by_parent_id.val :
                   w.c.children_remaining_by_parent_id.val[pid] = <<>>

(***************************************************************************)
(* Further claims about the sorter (specification SpecSorter)              *)
(***************************************************************************)
\* C32: decide removes from remaining exactly the candidate of the popped
\* frame, and only on the first decision for that candidate.  With a frame
\* open, remaining after either decision is remaining before it without the
\* frame's candidate (the object itself): shorter by that one item while the
\* candidate is still in it, unchanged once it has been removed; items with
\* no id included.
C32_DecideRemovesCandidateOnly ==
    srt.frames # <<>>
       => LET cand == srt.frames[Len(srt.frames)][4]
          IN \A choose_left \in BOOLEAN :
                Sorter_decide(srt, choose_left).s.remaining
                   = SelectSeq(srt.remaining, LAMBDA t : t.ref # cand.ref)

\* the items a sorter holds, one entry per place: sorted, remaining, and the
\* candidate of each frame unless it is the head of remaining (the same
\* object counted once)
FrameOnly(s) ==
    SelectSeq([k \in 1..Len(s.frames) |-> s.frames[k][4]],
              LAMBDA t : s.remaining = <<>> \/ Head(s.remaining).ref # t.ref)
Places(s) == Refs(s.sorted) \o Refs(s.remaining) \o Refs(FrameOnly(s))
NoRepeat(l) == \A i, j \in 1..Len(l) : l[i] = l[j] => i = j
Range(l) == {l[k] : k \in 1..Len(l)}

\* C33: sorter conservation.  Every step of the sorter keeps each item in
\* exactly one of sorted, remaining and the open frame's candidate slot: no
\* item is held twice, none is lost and none appears, so that when
\* has_work() is false sorted holds the initial baseline and pending items,
\* each once.
C33_SorterConservation ==
    [][/\ NoRepeat(Places(srt'))
       /\ Range(Places(srt')) = Range(Places(srt))]_vars

\* C34: search-frame invariant.  In every reachable state the sorter holds
\* at most one frame, and that frame has 0 <= low <= mid < high <=
\* len(sorted) and a candidate that is not in sorted, so that the probe
\* sorted[mid] exists.
C34_SearchFrame ==
    /\ Len(srt.frames) <= 1
    /\ \A k \in 1..Len(srt.frames) :
          LET low == srt.frames[k][1]
              high == srt.frames[k][2]
              mid == srt.frames[k][3]
              cand == srt.frames[k][4]
          IN /\ 0 <= low /\ low <= mid /\ mid < high /\ high <= Len(srt.sorted)
             /\ cand.ref \notin RefSet(srt.sorted)
             /\ mid + 1 \in DOMAIN srt.sorted

\* C34 witness: a frame narrowed by a decision, strictly inside the order
C34_Witness ==
    /\ Len(srt.frames) = 1
    /\ srt.frames[1][1] > 0
    /\ srt.frames[1][2] < Len(srt.sorted)
    /\ Len(srt.sorted) > MaxBaseline

\* C35: a sorter with an empty baseline and exactly one pending item needs
\* no comparison: its first current_pair call returns None, leaves the item
\* as the sole element of sorted and has_work() false.
C35_SingleItemNoComparison ==
    (srt.sorted = <<>> /\ Len(srt.remaining) = 1 /\ srt.frames = <<>>)
       => LET r == Sorter_current_pair(srt)
          IN /\ r.pair = <<>>
             /\ r.s.sorted = srt.remaining
             /\ r.s.remaining = <<>> /\ r.s.frames = <<>>
             /\ ~has_work(r.s)

\* C35 witness: the sorter that started with one pending item and nothing
\* sorted has it placed, with no pair asked and no decision taken
C35_Witness ==
    /\ Len(srt.sorted) = 1
    /\ srt.sorted[1].ref = PendRefPool[1]
    /\ ~has_work(srt)
    /\ hist.asked = {} /\ hist.pair = <<>>

(***************************************************************************)
(* Further claims about the controller (specification SpecGroups), the     *)
(* root branch of a decision and flush                                     *)
(***************************************************************************)
\* C36: a decision that places a root persists in that same call, once,
\* the roots in their new order with the child orders finalized so far, and
\* if the persist succeeds it deletes that root in the same call if and only
\* if the root has a live id and no pending children; it deletes nothing
\* else, and nothing when the persist fails.
C36_PlacedRootPersistedThenDeleted ==
    \A x \in Calls :
       (/\ ChooseCall(x)
        /\ has_work(ctl.roots_sorter)
        /\ Len(x.w.c.roots_sorter.sorted) > Len(ctl.roots_sorter.sorted))
          => LET w == x.w
                 placed == ctl.roots_sorter.frames[Len(ctl.roots_sorter.frames)][4]
                 ready == /\ placed.id # None
                          /\ DictGet(ctl.children_remaining_by_parent_id, placed.id, <<>>) = <<>>
             IN /\ placed.ref \in RefSet(w.c.roots_sorter.sorted)
                /\ Len(w.log) >= 1 /\ IsWrite(w.log[1])
                /\ w.log[1].roots = Refs(w.c.roots_sorter.sorted)
                /\ w.log[1].children = [pid \in DOMAIN ctl.children_sorted_by_parent_id |->
                                           Refs(ctl.children_sorted_by_parent_id[pid])]
                /\ \A k \in 2..Len(w.log) : IsDelete(w.log[k])
                /\ DeletedIn(w.log) = IF w.log[1].ok /\ ready THEN {placed.id} ELSE {}
                /\ w.c.deleted_ids = ctl.deleted_ids \cup DeletedIn(w.log)

\* C36 witness: the decision placed root r2, which has no subtasks, and
\* deleted it in the same call; root r1 has two pending subtasks and is kept
C36_Witness ==
    /\ ~has_work(ctl.roots_sorter)
    /\ ctl.parent_order_ids = <<>> /\ ~ctl._persisted_after_auto_root
    /\ ctl.deleted_ids = {RootIdPool[2]}
    /\ Len(DictGet(ctl.children_remaining_by_parent_id, RootIdPool[1], <<>>)) = 2

\* C37: a flush whose persist fails issues no external delete and leaves the
\* controller (both sorters, children_remaining_by_parent_id,
\* children_sorted_by_parent_id, the delete queues, deleted_ids) and the
\* external stores as they were.
C37_FailedFlushChangesNothing ==
    \A w \in FlushCalls :
       FailedWriteIn(w.log)
          => /\ w.exc
             /\ Len(w.log) = 1
             /\ DeletedIn(w.log) = {}
             /\ w.c.roots_sorter = ctl.roots_sorter
             /\ w.c.child_sorter = ctl.child_sorter
             /\ w.c.children_remaining_by_parent_id = ctl.children_remaining_by_parent_id
             /\ w.c.children_sorted_by_parent_id = ctl.children_sorted_by_parent_id
             /\ w.c._pending_child_deletes_by_parent = ctl._pending_child_deletes_by_parent
             /\ w.c.deleted_ids = ctl.deleted_ids
             /\ w.env = env

\* C37 witness: a state in which the flush whose persist succeeds deletes
\* something, and after a flush whose persist failed
C37_Witness ==
    /\ \E w \in FlushCalls : FailedWriteIn(w.log) /\ w.c = ctl /\ w.env = env
    /\ \E v \in FlushCalls : DeletedIn(v.log) # {}

(***************************************************************************)
(* Further claims about the controller (specification SpecReconcile)       *)
(***************************************************************************)
\* the ids fetch_active_tasks returned
LiveIds ==
    {snap.roots_from_gt[k].id : k \in 1..Len(snap.roots_from_gt)}
       \cup UNION {Ids(snap.children_from_gt_by_id.val[pid]) :
                      pid \in DOMAIN snap.children_from_gt_by_id.val}

\* the roots the controller holds that have no live id
LedgerOnlyRoots(c) ==
    {t \in HeldBy(c.roots_sorter) : t.id = None}

\* C38: a ledger-only root (no live id after reconciliation) is never queued
\* or activated as a parent for child ranking and never causes an external
\* delete; every id ever deleted or added to deleted_ids is an id
\* the live source returned.
C38_LedgerOnlyRootsLeftAlone ==
    \A x \in Calls :
       LET w == x.w
       IN /\ \A k \in 1..Len(w.c.parent_order_ids) : w.c.parent_order_ids[k] \in LiveIds
          /\ w.c.current_parent_id # None => w.c.current_parent_id \in LiveIds
          /\ DeletedIn(w.log) \subseteq LiveIds
          /\ w.c.deleted_ids \subseteq LiveIds
          /\ None \notin LiveIds
          /\ LedgerOnlyRoots(w.c) = LedgerOnlyRoots(ctl)

\* C38 witness: the controller holds a ledger-only root, a live parent was
\* activated for child ranking and a live task was deleted
C38_Witness ==
    /\ LedgerOnlyRoots(ctl) # {}
    /\ ctl.current_parent_id # None
    /\ ctl.deleted_ids # {}
    /\ ~has_work(ctl.roots_sorter)

(***************************************************************************)
(* One merge of _reconcile_sheet_with_google: a live item whose normalized *)
(* title matched a ledger item is merged into it.  Here the items carry    *)
(* the keys the merge touches; a key the dict does not have is None, for   *)
(* notes and _link, which are strings (sequences of characters), NoString. *)
(* MergeInto above is this merge restricted to the keys the controller     *)
(* reads afterwards.                                                       *)
(***************************************************************************)
MaxNoteLen == 2   \* length of a notes string

\* str.strip()
strip(s) == StripRight(StripLeft(s))

\* what .get("notes") / .get("_link") returns for a dict without the key
NoString == <<None>>

\* (x or "")
OrEmpty(x) == IF x = NoString THEN <<>> ELSE x

\* the keys copied from a live root, and from a live subtask
RootKeys == {"id", "task_list_id", "position", "list_title"}
ChildKeys == RootKeys \cup {"parent"}

\* mutant of MergeItem: notes and _link are always taken from the live item
MergeItem_LiveWins(sheet_item, gt_item, keys) ==
    LET copied == [k \in DOMAIN sheet_item |->
                      IF k \in keys /\ gt_item[k] # None THEN gt_item[k] ELSE sheet_item[k]]
    IN [copied EXCEPT !._link = strip(OrEmpty(gt_item._link)),
                      !.notes = strip(OrEmpty(gt_item.notes))]

\* the body of "if sheet_root:" / "if nt and nt in idx:"
MergeItem(sheet_item, gt_item, keys) ==
    LET copied == [k \in DOMAIN sheet_item |->
                      IF k \in keys /\ gt_item[k] # None THEN gt_item[k] ELSE sheet_item[k]]
    IN [copied EXCEPT
          !._link = IF strip(OrEmpty(@)) = <<>> THEN strip(OrEmpty(gt_item._link)) ELSE @,
          !.notes = IF strip(OrEmpty(@)) = <<>> THEN strip(OrEmpty(gt_item.notes)) ELSE @]

\* an item with the keys of the merge
Item(id, tlist, position, list_title, parent, notes, link) ==
    [id |-> id, task_list_id |-> tlist, position |-> position, list_title |-> list_title,
     parent |-> parent, notes |-> notes, _link |-> link]

\* the strings of at most n characters over an alphabet
StringsUpTo(alphabet, n) == UNION {[1..m -> alphabet] : m \in 0..n}

\* read_full_state: a row's notes are the cell as it is, its _link is
\* stripped, it has no id; a row an earlier live item of the same title was
\* merged into has that item's keys
LedgerItems ==
    {Item(id, IF id = None THEN None ELSE "L", IF id = None THEN None ELSE "01",
          IF id = None THEN None ELSE "Inbox", None, notes, link) :
        id \in {None, RootIdPool[1]},
        notes \in StringsUpTo({" ", "n"}, MaxNoteLen),
        link \in {<<>>, <<"k">>}}

\* fetch_active_tasks: a live task has an id, its list's id and title and a
\* position, a subtask its parent's id; notes may be missing; _link is what
\* extract_first_link returned
LiveItems ==
    {Item(RootIdPool[2], "M", "02", "Work", parent, notes, link) :
        parent \in {None, RootIdPool[3]},
        notes \in {NoString} \cup StringsUpTo({" ", "m"}, MaxNoteLen),
        link \in {<<>>, <<"h">>}}

InitMerge ==
    /\ \E sheet_item \in LedgerItems, gt_item \in LiveItems :
          mrg = [sheet_item |-> sheet_item, gt_item |-> gt_item, out |-> <<>>]
    /\ ctl = NewController(<<>>, <<>>, <<>>, EmptyDict)
    /\ env = NewEnv
    /\ snap = NoSnapshot
    /\ store = NoStore
    /\ srt = NoSorter
    /\ hist = NoHist

\* the merge of a live root into the ledger root of its title
MergeRoot ==
    /\ mrg.out = <<>>
    /\ mrg.gt_item.parent = None
    /\ mrg' = [mrg EXCEPT !.out = <<MergeItem(mrg.sheet_item, mrg.gt_item, RootKeys)>>]
    /\ UNCHANGED <<ctl, env, snap, store, srt, hist>>

\* the merge of a live subtask into the ledger subtask of its title
MergeChild ==
    /\ mrg.out = <<>>
    /\ mrg.gt_item.parent # None
    /\ mrg' = [mrg EXCEPT !.out = <<MergeItem(mrg.sheet_item, mrg.gt_item, ChildKeys)>>]
    /\ UNCHANGED <<ctl, env, snap, store, srt, hist>>

NextMerge == MergeRoot \/ MergeChild

SpecMerge == InitMerge /\ [][NextMerge]_vars

(***************************************************************************)
(* Claims about the merge (specification SpecMerge)                        *)
(***************************************************************************)
\* a notes or link value with nothing but blanks in it
Blank(x) == strip(OrEmpty(x)) = <<>>

\* C39: when a live item is merged into a ledger item, a ledger notes or
\* link value that is not blank is kept as it is, a blank one is filled from
\* the live item (with the live value, trimmed; empty if the live item has
\* none), and the live item's id, list id and list title are on the ledger
\* item afterwards.
C39_MergePrecedence ==
    mrg.out # <<>>
       => LET sheet_item == mrg.sheet_item
              gt_item == mrg.gt_item
              out == mrg.out[1]
          IN /\ ~Blank(sheet_item.notes) => out.notes = sheet_item.notes
             /\ ~Blank(sheet_item._link) => out._link = sheet_item._link
             /\ Blank(sheet_item.notes) => out.notes = strip(OrEmpty(gt_item.notes))
             /\ Blank(sheet_item._link) => out._link = strip(OrEmpty(gt_item._link))
             /\ out.id = gt_item.id
             /\ out.task_list_id = gt_item.task_list_id
             /\ out.list_title = gt_item.list_title

\* C39 witness: the ledger notes, with a blank at their end, were kept
\* although the live item has notes; the blank ledger link was filled with
\* the live link; the ledger item, merged before, has the new live id
C39_Witness ==
    /\ mrg.out # <<>>
    /\ mrg.sheet_item.notes = <<"n", " ">> /\ mrg.gt_item.notes = <<"m">>
    /\ mrg.out[1].notes = <<"n", " ">>
    /\ mrg.sheet_item._link = <<>> /\ mrg.out[1]._link = <<"h">>
    /\ mrg.sheet_item.id = RootIdPool[1] /\ mrg.out[1].id = RootIdPool[2]

====
